---- MODULE Spec2Model ----
(***************************************************************************)
(* A model of sanity-io/go-jsonmatch: the MatchSet facade, the reference   *)
(* algebra (Var, Array, Map, Union, Literal, Latent references), the       *)
(* evaluator that walks an expression tree over references, and the region *)
(* arithmetic.                                                             *)
(*                                                                         *)
(* Go maps and slices are reference types, so documents live in a heap of  *)
(* container cells and a value is a scalar or the address of a cell.  A    *)
(* VarRef's getter/setter closures are interpreted structurally: a VarRef  *)
(* is the path of keys and indices from the root variable `data` of its    *)
(* Match call.  LatentMapRef objects are mutated in place by AddKey, so    *)
(* they live in a store of their own and references hold their identity.   *)
(* A Go panic is an outcome of its own, distinct from a returned error.    *)
(***************************************************************************)
EXTENDS Integers, Sequences, FiniteSets, TLC

VARIABLES
    heap,    \* the Go heap: a sequence of container cells (maps and slices)
    latents, \* the LatentMapRef objects allocated so far
    rootD,   \* the value D the caller passes to Match
    doc0,    \* D as a pure tree, as it was when the caller built it
    sets,    \* the MatchSets the caller holds
    last,    \* the outcome of the caller's last call
    probe    \* the arguments and the result of a function applied on its own

vars == <<heap, latents, rootD, doc0, sets, last, probe>>

(***************************************************************************)
(* Values                                                                  *)
(***************************************************************************)
Nil == [t |-> "nil", v |-> 0]
Scalar(n) == [t |-> "s", v |-> n]
MapVal(addr) == [t |-> "map", v |-> addr]
ArrVal(addr) == [t |-> "arr", v |-> addr]
\* the value of an expression whose evaluation panicked
PanicVal == [t |-> "panic", v |-> 0]

MapCell(entries) == [m |-> entries, a |-> <<>>]
ArrCell(items) == [m |-> {}, a |-> items]

\* m[key] of a Go map: the zero value nil when the key is absent
MapGet(entries, key) ==
    IF \E e \in entries : e.k = key
    THEN (CHOOSE e \in entries : e.k = key).v
    ELSE Nil

\* m[key] = value on a Go map
MapPut(entries, key, value) ==
    {e \in entries : e.k # key} \cup {[k |-> key, v |-> value]}

\* delete(m, key)
MapDel(entries, key) == {e \in entries : e.k # key}

MapKeys(entries) == {e.k : e \in entries}

(***************************************************************************)
(* Strings.  Keys are compared and sorted as Go compares strings: byte by  *)
(* byte.  KeyChars gives the bytes of each key the model uses.             *)
(***************************************************************************)
KeyChars == [a |-> <<97>>, b |-> <<98>>, c |-> <<99>>, d |-> <<100>>,
             e |-> <<101>>, f |-> <<102>>, g |-> <<103>>]

Keys == DOMAIN KeyChars

RECURSIVE BytesLess(_, _)
\* s < t for two byte strings
BytesLess(s, t) ==
    IF t = <<>> THEN FALSE
    ELSE IF s = <<>> THEN TRUE
    ELSE IF Head(s) # Head(t) THEN Head(s) < Head(t)
    ELSE BytesLess(Tail(s), Tail(t))

StrLess(k1, k2) == BytesLess(KeyChars[k1], KeyChars[k2])

RECURSIVE InsertSorted(_, _)
InsertSorted(k, ks) ==
    IF ks = <<>> THEN <<k>>
    ELSE IF StrLess(Head(ks), k) THEN <<Head(ks)>> \o InsertSorted(k, Tail(ks))
    ELSE <<k>> \o ks

RECURSIVE SortStrings(_)
\* sort.Strings: the keys in increasing order (duplicates kept)
SortStrings(ks) ==
    IF ks = <<>> THEN <<>>
    ELSE InsertSorted(Head(ks), SortStrings(Tail(ks)))

RECURSIVE SetToSortedSeq(_)
\* the keys of a set as a sorted sequence
SetToSortedSeq(S) ==
    IF S = {} THEN <<>>
    ELSE LET k == CHOOSE x \in S : \A y \in S : x = y \/ StrLess(x, y)
         IN <<k>> \o SetToSortedSeq(S \ {k})

SeqToSet(s) == {s[i] : i \in DOMAIN s}

Front(s) == SubSeq(s, 1, Len(s) - 1)
Last(s) == s[Len(s)]

(***************************************************************************)
(* Regions (regions.go)                                                    *)
(***************************************************************************)
Region(start, end) == [Start |-> start, End |-> end]

\* Region.Len
RegionLen(r) == r.End - r.Start

\* Region.Empty
RegionEmpty(r) == RegionLen(r) = 0

\* Region.ContainsIndex
RegionContainsIndex(r, index) == index >= r.Start /\ index < r.End

\* Region.ContainsRegion
ContainsRegion(r, other) == other.Start >= r.Start /\ other.End <= r.End

\* Region.Overlap
Overlap(r, other) ==
    \/ (other.Start >= r.Start /\ other.Start < r.End)
    \/ (other.End > r.Start /\ other.End < r.End)
    \/ (other.Start < r.Start /\ other.End > r.Start)
    \/ (r.Start < other.Start /\ r.End > other.Start)

\* Region.Equal
RegionEqual(r, other) == r.Start = other.Start /\ r.End = other.End

\* Region.Join
Join(r, other) ==
    Region(IF r.Start < other.Start THEN r.Start ELSE other.Start,
           IF r.End > other.End THEN r.End ELSE other.End)

\* Region.Shift
Shift(r, diff) == Region(r.Start + diff, r.End + diff)

\* Region.Shrink: "but never smaller than nothing"
Shrink(r, count) ==
    IF count >= RegionLen(r) THEN Region(r.Start, r.Start) ELSE Region(r.Start, r.End - count)

\* Region.Cut: the position and size of r "as if the provided region was cut
\* from the underlying array"
Cut(r, other) ==
    IF other.End < r.Start THEN Shift(r, -RegionLen(other))
    ELSE IF other.Start >= r.End THEN r
    ELSE IF other.Start >= r.Start /\ other.End >= r.End THEN Region(r.Start, other.Start)
    ELSE IF other.Start <= r.Start /\ other.End > r.End THEN Region(other.Start, other.Start)
    ELSE IF other.Start <= r.Start /\ other.End > r.Start
    THEN Region(other.Start, other.Start + RegionLen(r) - (other.End - r.Start))
    ELSE Shrink(r, RegionLen(other))

\* Region.Intersect: what remains of r after other is carved out of it
RegionIntersect(r, other) ==
    IF ContainsRegion(other, r) THEN <<>>
    ELSE IF ~Overlap(r, other) THEN <<r>>
    ELSE IF other.Start <= r.Start THEN <<Region(other.End, r.End)>>
    ELSE IF other.End >= r.End THEN <<Region(r.Start, other.Start)>>
    ELSE <<Region(r.Start, other.Start), Region(other.End, r.End)>>

\* the nil *Region of the loops of Union and Intersect
NoRegion == <<>>

RECURSIVE UnionLoop(_, _, _, _)
\* the loop of Regions.Union; next is <<>> (nil) or <<region>>
UnionLoop(leftSet, rightSet, result, next) ==
    IF leftSet = <<>> /\ rightSet = <<>>
    THEN result \o next
    ELSE IF next = NoRegion
    THEN IF leftSet = <<>> THEN result \o rightSet
         ELSE IF rightSet = <<>> THEN result \o leftSet
         ELSE IF Head(leftSet).Start < Head(rightSet).Start
              THEN UnionLoop(Tail(leftSet), rightSet, result, <<Head(leftSet)>>)
              ELSE UnionLoop(leftSet, Tail(rightSet), result, <<Head(rightSet)>>)
    ELSE IF leftSet # <<>> /\ Overlap(next[1], Head(leftSet))
    THEN UnionLoop(Tail(leftSet), rightSet, result, <<Join(next[1], Head(leftSet))>>)
    ELSE IF leftSet # <<>> /\ RegionEqual(next[1], Head(leftSet))
    THEN UnionLoop(Tail(leftSet), rightSet, result, next)
    ELSE IF rightSet # <<>> /\ Overlap(next[1], Head(rightSet))
    THEN UnionLoop(leftSet, Tail(rightSet), result, <<Join(next[1], Head(rightSet))>>)
    ELSE IF rightSet # <<>> /\ RegionEqual(next[1], Head(rightSet))
    THEN UnionLoop(leftSet, Tail(rightSet), result, next)
    ELSE UnionLoop(leftSet, rightSet, result \o next, NoRegion)

\* Regions.Union
RegionsUnion(rs, otherRegions) ==
    IF rs = <<>> THEN otherRegions
    ELSE IF otherRegions = <<>> THEN rs
    ELSE UnionLoop(rs, otherRegions, <<>>, NoRegion)

RECURSIVE DropBefore(_, _)
\* "consume from the right set until we catch up with *next"
DropBefore(rightSet, next) ==
    IF rightSet # <<>> /\ Head(rightSet).End <= next.Start
    THEN DropBefore(Tail(rightSet), next)
    ELSE rightSet

RECURSIVE IntersectLoop(_, _, _, _)
\* the loop of Regions.Intersect; next is <<>> (nil) or <<region>>
IntersectLoop(leftSet, rightSet, result, next) ==
    IF leftSet = <<>> /\ rightSet = <<>>
    THEN result \o next
    ELSE IF leftSet = <<>> /\ next = NoRegion
    THEN result
    ELSE LET nx == IF next = NoRegion THEN Head(leftSet) ELSE next[1]
             ls == IF next = NoRegion THEN Tail(leftSet) ELSE leftSet
             rt == DropBefore(rightSet, nx)
         IN IF rt = <<>>
            THEN (result \o <<nx>>) \o ls
            ELSE IF Overlap(Head(rt), nx)
            THEN LET intersection == RegionIntersect(nx, Head(rt))
                 IN IF Len(intersection) = 0
                    THEN IntersectLoop(ls, rt, result, NoRegion)
                    ELSE IF Len(intersection) = 1
                    THEN IntersectLoop(ls, rt, result, <<intersection[1]>>)
                    ELSE IntersectLoop(ls, rt, result \o <<intersection[1]>>,
                                       <<intersection[2]>>)
            ELSE IntersectLoop(ls, rt, result \o <<nx>>, NoRegion)

\* Regions.Intersect: rs with the parts covered by other removed
RegionsIntersect(rs, other) ==
    IF other = <<>> \/ rs = <<>> THEN rs
    ELSE IntersectLoop(rs, other, <<>>, NoRegion)

RECURSIVE InsertRegion(_, _)
\* one pass of the insertion sort of sort.Sort on a short slice: r moves down
\* past every region whose Start is greater (Regions.Less)
InsertRegion(sorted, r) ==
    IF sorted # <<>> /\ r.Start < Last(sorted).Start
    THEN Append(InsertRegion(Front(sorted), r), Last(sorted))
    ELSE Append(sorted, r)

RECURSIVE SortLoop(_, _)
SortLoop(rs, sorted) ==
    IF rs = <<>> THEN sorted ELSE SortLoop(Tail(rs), InsertRegion(sorted, Head(rs)))

\* Regions.Sort
RegionsSort(rs) == SortLoop(rs, <<>>)

\* Regions.Check: sorted and non-overlapping
RegionsCheck(rs) ==
    \A k \in DOMAIN rs : rs[k].Start >= (IF k = 1 THEN 0 ELSE rs[k - 1].End)

\* Regions.CheckSorted
CheckSorted(rs) ==
    \A k \in DOMAIN rs : rs[k].Start >= (IF k = 1 THEN 0 ELSE rs[k - 1].Start)

RECURSIVE CleanLoop(_, _, _)
\* the loop of Regions.Clean over the sorted regions; next is <<>> (nil) or
\* <<region>>
CleanLoop(rs, result, next) ==
    IF rs = <<>> THEN result \o next
    ELSE IF next = NoRegion THEN CleanLoop(Tail(rs), result, <<Head(rs)>>)
    ELSE IF Head(rs) = next[1] THEN CleanLoop(Tail(rs), result, next)
    ELSE IF Head(rs).Start >= next[1].End
    THEN CleanLoop(Tail(rs), result \o next, <<Head(rs)>>)
    ELSE IF Head(rs).End > next[1].End
    THEN CleanLoop(Tail(rs),
                   result \o <<Region(next[1].Start, Head(rs).Start),
                               Region(Head(rs).Start, next[1].End)>>,
                   <<Region(next[1].End, Head(rs).End)>>)
    ELSE CleanLoop(Tail(rs),
                   result \o <<Region(next[1].Start, Head(rs).Start), Head(rs)>>,
                   <<Region(Head(rs).End, next[1].End)>>)

\* Regions.Clean
Clean(rs) == CleanLoop(RegionsSort(rs), <<>>, NoRegion)

\* Region.IsAfter
IsAfter(r, index) == r.Start >= index

\* Region.IsAfter with a strict comparison
IsStrictlyAfter(r, index) == r.Start > index

\* Region.Grow
Grow(r, count) == Region(r.Start, r.End + count)

\* one region of Regions.InsertAt, with the test that decides a shift
InsertAtWith(after(_, _), r, other) ==
    IF after(r, other.Start) THEN Shift(r, RegionLen(other))
    ELSE IF RegionContainsIndex(r, other.Start) THEN Grow(r, RegionLen(other))
    ELSE r

\* Regions.InsertAt for a strict IsAfter
InsertAtStrict(rs, other) ==
    [i \in DOMAIN rs |-> InsertAtWith(IsStrictlyAfter, rs[i], other)]

\* Regions.InsertAt; other.Len() >= 0, or it panics
InsertAt(rs, other) ==
    [i \in DOMAIN rs |-> InsertAtWith(IsAfter, rs[i], other)]

\* Regions.Compact
Compact(rs) == SelectSeq(rs, LAMBDA r : ~RegionEmpty(r))

RECURSIVE SimplifyLoop(_, _)
\* the loop of Regions.Simplify over the compacted regions
SimplifyLoop(rs, result) ==
    IF rs = <<>> THEN result
    ELSE IF result # <<>> /\ Overlap(result[Len(result)], Head(rs))
    THEN SimplifyLoop(Tail(rs),
                      [result EXCEPT ![Len(result)] = Join(result[Len(result)], Head(rs))])
    ELSE IF RegionLen(Head(rs)) > 0 THEN SimplifyLoop(Tail(rs), Append(result, Head(rs)))
    ELSE SimplifyLoop(Tail(rs), result)

\* Regions.Simplify without its loop: the compacted regions, none joined
SimplifyNoJoin(rs) ==
    IF ~CheckSorted(rs) THEN [panic |-> TRUE, regions |-> <<>>]
    ELSE [panic |-> FALSE, regions |-> Compact(rs)]

\* Regions.Simplify: the regions, or the panic on regions that are not sorted
Simplify(rs) ==
    IF ~CheckSorted(rs) THEN [panic |-> TRUE, regions |-> <<>>]
    ELSE [panic |-> FALSE, regions |-> SimplifyLoop(Compact(rs), <<>>)]

RECURSIVE Range(_, _)
\* the integers i, i+1, ..., end-1 in order
Range(i, end) == IF i < end THEN <<i>> \o Range(i + 1, end) ELSE <<>>

RECURSIVE ToIndicies(_)
\* Regions.ToIndicies
ToIndicies(rs) ==
    IF rs = <<>> THEN <<>>
    ELSE Range(Head(rs).Start, Head(rs).End) \o ToIndicies(Tail(rs))

RECURSIVE RegionsContainsIndex(_, _)
\* Regions.ContainsIndex, with its short circuit on a later Start
RegionsContainsIndex(rs, i) ==
    IF rs = <<>> THEN FALSE
    ELSE IF Head(rs).Start > i THEN FALSE
    ELSE IF RegionContainsIndex(Head(rs), i) THEN TRUE
    ELSE RegionsContainsIndex(Tail(rs), i)

\* NewRegionForEachIndex
NewRegionForEachIndex(indicies) ==
    [i \in DOMAIN indicies |-> Region(indicies[i], indicies[i] + 1)]

RECURSIVE IndiciesCount(_)
\* Regions.IndiciesCount
IndiciesCount(rs) ==
    IF rs = <<>> THEN 0 ELSE RegionLen(Head(rs)) + IndiciesCount(Tail(rs))

\* whether every index the regions cover is an index of the slice: a Go index
\* expression outside the slice panics
InBounds(rs, source) ==
    \A k \in DOMAIN rs :
        rs[k].Start >= rs[k].End \/ (rs[k].Start >= 0 /\ rs[k].End <= Len(source))

\* whether Regions.ExtractItems returns: it panics when a region reads outside
\* the slice or when its make() gets the negative length of a region
ExtractOk(rs, source) ==
    InBounds(rs, source) /\ \A k \in DOMAIN rs : RegionLen(rs[k]) >= 0

\* Regions.ExtractItems: one list per region, holding the items it covers
ExtractItems(rs, source) ==
    [k \in DOMAIN rs |->
        [j \in 1..(IF rs[k].End > rs[k].Start THEN rs[k].End - rs[k].Start ELSE 0) |->
            source[rs[k].Start + j]]]

RECURSIVE MergeLoop(_, _, _, _, _, _)
\* the loop of Regions.MergeItems over the regions from regionIndex on; panic
\* records a read of source at a negative index
MergeLoop(rs, source, replace, regionIndex, st, sourceIndex) ==
    IF regionIndex > Len(rs)
    THEN [merged |-> st.merged \o
                     (IF sourceIndex < Len(source) /\ sourceIndex >= 0
                      THEN SubSeq(source, sourceIndex + 1, Len(source))
                      ELSE <<>>),
          regions |-> st.regions,
          panic |-> st.panic \/ (sourceIndex < Len(source) /\ sourceIndex < 0)]
    ELSE LET r == rs[regionIndex]
             upto == IF r.Start < Len(source) THEN r.Start ELSE Len(source)
             copied == IF sourceIndex < upto /\ sourceIndex >= 0
                       THEN SubSeq(source, sourceIndex + 1, upto) ELSE <<>>
             merged1 == st.merged \o copied
             insert == IF Len(replace) >= regionIndex THEN replace[regionIndex] ELSE <<>>
         IN MergeLoop(rs, source, replace, regionIndex + 1,
                [merged |-> merged1 \o insert,
                 regions |-> Append(st.regions,
                                    Region(Len(merged1), Len(merged1) + Len(insert))),
                 panic |-> st.panic \/ (sourceIndex < upto /\ sourceIndex < 0)],
                r.End)

\* MergeItems as it would be without "Add any items beyond the end of the
\* regions"
MergeItemsNoTail(rs, source, replace) ==
    LET beyond == IF rs = <<>> THEN 0 ELSE rs[Len(rs)].End
        tail == IF beyond < Len(source) /\ beyond >= 0 THEN Len(source) - beyond ELSE 0
        cut(m) == [m EXCEPT !.merged = SubSeq(@, 1, Len(@) - tail)]
    IN cut(MergeLoop(rs, source, replace, 1,
                     [merged |-> <<>>, regions |-> <<>>, panic |-> FALSE], 0))

\* Regions.MergeItems: the spliced array and the regions of the inserted items
MergeItems(rs, source, replace) ==
    MergeLoop(rs, source, replace, 1,
              [merged |-> <<>>, regions |-> <<>>, panic |-> FALSE], 0)

(***************************************************************************)
(* Documents.  A tree is a document as a pure value; Load builds it in the *)
(* heap as the caller's program would, Deref reads it back.                *)
(***************************************************************************)
TNil == [t |-> "nil"]
TS(n) == [t |-> "s", v |-> n]
TMap(entries) == [t |-> "map", m |-> entries]
TArr(items) == [t |-> "arr", a |-> items]
KV(key, value) == [k |-> key, v |-> value]

RECURSIVE Deref(_, _)
\* the document a value denotes in a heap
Deref(h, val) ==
    CASE val.t = "map" -> TMap({KV(e.k, Deref(h, e.v)) : e \in h[val.v].m})
      [] val.t = "arr" -> TArr([i \in DOMAIN h[val.v].a |-> Deref(h, h[val.v].a[i])])
      [] val.t = "s" -> TS(val.v)
      [] OTHER -> [t |-> val.t]

DerefSeq(h, vals) == [i \in DOMAIN vals |-> Deref(h, vals[i])]

RECURSIVE Load(_, _)
RECURSIVE LoadItems(_, _, _)
RECURSIVE LoadEntries(_, _, _)
\* the heap with the tree built in it, and the value that denotes the tree
Load(h, tree) ==
    CASE tree.t = "map" ->
            LET r == LoadEntries(h, tree.m, {})
            IN [heap |-> Append(r.heap, MapCell(r.done)), val |-> MapVal(Len(r.heap) + 1)]
      [] tree.t = "arr" ->
            LET r == LoadItems(h, tree.a, <<>>)
            IN [heap |-> Append(r.heap, ArrCell(r.done)), val |-> ArrVal(Len(r.heap) + 1)]
      [] tree.t = "s" -> [heap |-> h, val |-> Scalar(tree.v)]
      [] OTHER -> [heap |-> h, val |-> Nil]

LoadItems(h, items, done) ==
    IF items = <<>> THEN [heap |-> h, done |-> done]
    ELSE LET r == Load(h, Head(items))
         IN LoadItems(r.heap, Tail(items), Append(done, r.val))

LoadEntries(h, entries, done) ==
    IF entries = {} THEN [heap |-> h, done |-> done]
    ELSE LET e == CHOOSE x \in entries : \A y \in entries : x.k = y.k \/ StrLess(x.k, y.k)
             r == Load(h, e.v)
         IN LoadEntries(r.heap, entries \ {e}, done \cup {KV(e.k, r.val)})

(***************************************************************************)
(* The world an operation runs in: the heap, the variable `data` of the    *)
(* Match call (Expression.Match: its getter returns it, its setter         *)
(* replaces it), the LatentMapRef objects, and how the operation has       *)
(* failed so far: err is a returned error, panic a Go panic.               *)
(***************************************************************************)
World(h, root, lat) == [heap |-> h, root |-> root, lat |-> lat, err |-> "", panic |-> ""]

Faulted(w) == w.err # "" \/ w.panic # ""
Panic(w, msg) == IF Faulted(w) THEN w ELSE [w EXCEPT !.panic = msg]
Error(w, msg) == IF Faulted(w) THEN w ELSE [w EXCEPT !.err = msg]

\* a new cell; its address is Len(heap) of the result
Alloc(w, cell) == [w EXCEPT !.heap = Append(@, cell)]

(***************************************************************************)
(* VarRef: the path from the root variable, the depth, and for the VarRef  *)
(* of a LiteralRef the literal value.                                      *)
(***************************************************************************)
NoLit == [t |-> "none", v |-> 0]
KeyStep(key) == [k |-> key, i |-> -1]
IndexStep(index) == [k |-> "", i |-> index]
IsKeyStep(st) == st.i < 0

VarRef(path, depth) == [path |-> path, depth |-> depth, litv |-> NoLit]

\* the root VarRef of Expression.Match: identity "$", depth 0
RootVar == VarRef(<<>>, 0)

\* LiteralRef.Vars: identity "[literal]", depth -1
LiteralVar(value) == [path |-> <<>>, depth |-> -1, litv |-> value]

\* the VarRef whose MapRef or ArrayRef made this one (the r.variable its closures hold)
ParentVar(var) == VarRef(Front(var.path), var.depth - 2)

Digit(n, place) == 48 + ((n \div place) % 10)

\* fmt "%06d" of an index below 1000000
Digits6(n) ==
    <<Digit(n, 100000), Digit(n, 10000), Digit(n, 1000), Digit(n, 100), Digit(n, 10),
      Digit(n, 1)>>

RECURSIVE PathBytes(_)
PathBytes(path) ==
    IF path = <<>> THEN <<36>>
    ELSE PathBytes(Front(path)) \o
         (IF IsKeyStep(Last(path))
          THEN <<46>> \o KeyChars[Last(path).k]
          ELSE <<91>> \o Digits6(Last(path).i) \o <<93>>)

\* VarRef.identity: "$", "<parent>.<key>" or "<parent>[<%06d index>]", as bytes
Identity(var) ==
    IF var.litv # NoLit
    THEN <<91, 108, 105, 116, 101, 114, 97, 108, 93>>
    ELSE PathBytes(var.path)

\* toCanonicalType: reflect.TypeOf(nil).Kind() is a nil dereference; the
\* documents of the model hold canonical containers only, which it returns as is
toCanonicalType(value) == IF value.t = "nil" THEN PanicVal ELSE value

RECURSIVE PathValue(_, _)
\* the getter closures: MapRef.Vars, ArrayRef.Vars and the root getter of Match
PathValue(w, path) ==
    IF path = <<>> THEN w.root
    ELSE LET parent == toCanonicalType(PathValue(w, Front(path)))
             st == Last(path)
         IN IF IsKeyStep(st)
            THEN IF parent.t # "map" THEN PanicVal
                 ELSE MapGet(w.heap[parent.v].m, st.k)
            ELSE IF parent.t # "arr" THEN PanicVal
                 ELSE IF st.i >= Len(w.heap[parent.v].a) THEN PanicVal
                 ELSE w.heap[parent.v].a[st.i + 1]

\* VarRef.Value
VarValue(w, var) == IF var.litv # NoLit THEN var.litv ELSE PathValue(w, var.path)

\* VarRef.CanonicalValue
CanonicalValue(w, var) == toCanonicalType(VarValue(w, var))

\* VarRef.IsMap
IsMap(w, var) == VarValue(w, var).t = "map"

\* VarRef.IsSlice
IsSlice(w, var) == VarValue(w, var).t = "arr"

\* matchType: the new value converted to the old value's type; with canonical
\* containers only the types are equal and the new value is returned
matchType(newValue, oldValue) == newValue

\* cloneMap as it would be if it returned the map itself and not a copy
cloneMapAliased(w, variable) ==
    LET current == CanonicalValue(w, variable)
    IN IF current.t # "map"
       THEN [w |-> Panic(w, "interface conversion: not a map"), addr |-> 0]
       ELSE [w |-> w, addr |-> current.v]

\* the copy MapRef.cloneMap makes: the world with the copy in it, and its address
cloneMap(w, variable) ==
    LET current == CanonicalValue(w, variable)
    IN IF current.t # "map"
       THEN [w |-> Panic(w, "interface conversion: not a map"), addr |-> 0]
       ELSE [w |-> Alloc(w, MapCell(w.heap[current.v].m)), addr |-> Len(w.heap) + 1]

\* make([]interface{}, len(current)); copy(modified, current)
cloneArray(w, variable) ==
    LET current == CanonicalValue(w, variable)
    IN IF current.t # "arr"
       THEN [w |-> Panic(w, "interface conversion: not a slice"), addr |-> 0]
       ELSE [w |-> Alloc(w, ArrCell(w.heap[current.v].a)), addr |-> Len(w.heap) + 1]

RECURSIVE VarSet(_, _, _)
RECURSIVE setter(_, _, _)
\* The setter closure of a VarRef.  The setter of a key or an index clones
\* the container that holds it, stores the value in the clone and sets the
\* clone on the container's own VarRef; the root setter assigns `data`; the
\* setter of a literal's VarRef panics.
setter(w, var, value) ==
    IF Faulted(w) THEN w
    ELSE IF var.litv # NoLit THEN Panic(w, "Attempt to set value of LiteralRef")
    ELSE IF var.path = <<>> THEN [w EXCEPT !.root = value]
    ELSE LET st == Last(var.path)
             parent == ParentVar(var)
         IN IF IsKeyStep(st)
            THEN LET c == cloneMap(w, parent)
                 IN IF Faulted(c.w) THEN c.w
                    ELSE VarSet([c.w EXCEPT !.heap[c.addr].m = MapPut(@, st.k, value)],
                                parent, MapVal(c.addr))
            ELSE LET c == cloneArray(w, parent)
                 IN IF Faulted(c.w) THEN c.w
                    ELSE IF st.i >= Len(c.w.heap[c.addr].a)
                    THEN Panic(c.w, "index out of range")
                    ELSE VarSet([c.w EXCEPT !.heap[c.addr].a[st.i + 1] = value],
                                parent, ArrVal(c.addr))

\* VarRef.Set: assertIsCompatible (toCanonicalType of the value, which
\* dereferences the nil reflect.Type of a nil value), then the setter
VarSet(w, var, value) ==
    IF Faulted(w) THEN w
    ELSE IF toCanonicalType(value) = PanicVal
    THEN Panic(w, "nil pointer dereference in toCanonicalType")
    ELSE setter(w, var, value)

\* VarRef.SetWithMatchedType
SetWithMatchedType(w, var, value) ==
    IF Faulted(w) THEN w ELSE VarSet(w, var, matchType(value, VarValue(w, var)))

(***************************************************************************)
(* Refs.  A LatentMapRef is an object: AddKey changes it in place and      *)
(* Merge compares pointers, so a latent ref holds the index of the object  *)
(* in the world's lat.  NilRef is the nil Ref interface value.             *)
(***************************************************************************)
VarRefRef(var) == [kind |-> "var", var |-> var]
ArrayRef(variable, selection) == [kind |-> "array", var |-> variable, selection |-> selection]
MapRef(variable, keys) == [kind |-> "map", var |-> variable, keys |-> keys]
UnionRef(refs) == [kind |-> "union", refs |-> refs]
LiteralRef(value) == [kind |-> "literal", value |-> value]
LatentRef(id) == [kind |-> "latent", id |-> id]
NilRef == [kind |-> "nil"]
\* the evaluation has panicked
PanicRef == [kind |-> "panic"]

NewEmptyRef == UnionRef(<<>>)

LatentDepth == 100000

RECURSIVE Depth(_)
\* Ref.Depth of each kind of ref
Depth(ref) ==
    CASE ref.kind = "var" -> ref.var.depth
      [] ref.kind = "array" -> ref.var.depth + 1
      [] ref.kind = "map" -> ref.var.depth + 1
      [] ref.kind = "union" -> 0
      [] ref.kind = "literal" -> -1
      [] ref.kind = "latent" -> LatentDepth

\* the refs that implement PathedRef
IsPathed(ref) == ref.kind \in {"map", "array", "var"}

GetPath(ref) == Identity(ref.var)

\* UnionRef.Less on two members
Less(a, b) ==
    IF Depth(a) = Depth(b) /\ IsPathed(a) /\ ~IsPathed(b) THEN TRUE
    ELSE IF Depth(a) = Depth(b) /\ IsPathed(a) /\ IsPathed(b)
    THEN BytesLess(GetPath(a), GetPath(b))
    ELSE Depth(a) > Depth(b)

RECURSIVE SinkRef(_, _)
\* the inner loop of insertion sort: the element at j moves down while Less
SinkRef(refs, j) ==
    IF j > 1 /\ Less(refs[j], refs[j - 1])
    THEN SinkRef([refs EXCEPT ![j] = refs[j - 1], ![j - 1] = refs[j]], j - 1)
    ELSE refs

RECURSIVE SortFrom(_, _)
SortFrom(refs, i) == IF i > Len(refs) THEN refs ELSE SortFrom(SinkRef(refs, i), i + 1)

\* the union as it would be without the call of sort.Sort
UnsortedRefs(refs) == refs

\* sort.Sort(union): insertion sort, which is what sort.Sort runs on the short
\* slices of the model
SortRefs(refs) == SortFrom(refs, 2)

RECURSIVE Dedup(_, _)
Dedup(superset, result) ==
    IF superset = <<>> THEN result
    ELSE Dedup(Tail(superset),
               IF Head(superset) \in SeqToSet(result) THEN result
               ELSE Append(result, Head(superset)))

\* unionKeys
unionKeys(a, b) == SortStrings(Dedup(a \o b, <<>>))

RECURSIVE MergeInto(_, _, _)
RECURSIVE RefMerge(_, _)
\* UnionRef.Merge: the first member that merges with ref is replaced
MergeInto(refs, i, ref) ==
    IF i > Len(refs) THEN [ref |-> UnionRef(refs), ok |-> FALSE, panic |-> FALSE]
    ELSE LET merged(m) ==
                 IF m.panic THEN m
                 ELSE IF m.ok
                 THEN [ref |-> UnionRef([refs EXCEPT ![i] = m.ref]), ok |-> TRUE, panic |-> FALSE]
                 ELSE MergeInto(refs, i + 1, ref)
         IN merged(RefMerge(refs[i], ref))

\* r.Merge(ref) for each kind of r: the merged ref and whether they merged.
\* LatentMapRef.Merge returns a nil Ref with true for itself.
RefMerge(r, ref) ==
    LET no == [ref |-> NilRef, ok |-> FALSE, panic |-> FALSE]
        yes(m) == [ref |-> m, ok |-> TRUE, panic |-> FALSE]
    IN CASE r.kind \in {"nil", "panic"} -> [ref |-> NilRef, ok |-> FALSE, panic |-> TRUE]
         [] r.kind = "union" -> IF ref.kind = "union" THEN no ELSE MergeInto(r.refs, 1, ref)
         [] r.kind = "array" ->
                IF ref.kind = "array" /\ Identity(r.var) = Identity(ref.var)
                THEN yes(ArrayRef(r.var, RegionsUnion(r.selection, ref.selection)))
                ELSE no
         [] r.kind = "map" ->
                IF ref.kind = "map" /\ Identity(r.var) = Identity(ref.var)
                THEN yes(MapRef(r.var, unionKeys(r.keys, ref.keys)))
                ELSE no
         [] r.kind = "var" ->
                IF ref.kind = "var" /\ Identity(r.var) = Identity(ref.var) THEN yes(r) ELSE no
         [] r.kind = "literal" ->
                IF ref.kind = "literal" /\ r.value = ref.value THEN yes(r) ELSE no
         [] r.kind = "latent" ->
                [ref |-> NilRef, ok |-> ref.kind = "latent" /\ ref.id = r.id, panic |-> FALSE]

RECURSIVE UnionFold(_, _)
RECURSIVE RefUnion(_, _)
\* the loop of UnionRef.Union: unions are unwrapped, other refs are merged
\* into a member or appended
UnionFold(result, refs) ==
    IF refs = <<>> \/ result.kind = "panic" THEN result
    ELSE LET ref == Head(refs)
         IN IF ref.kind = "panic" THEN PanicRef
            ELSE IF ref.kind = "union"
            THEN UnionFold(RefUnion(result, ref.refs), Tail(refs))
            ELSE LET merged(m) ==
                         IF m.panic THEN PanicRef
                         ELSE IF m.ok THEN UnionFold(m.ref, Tail(refs))
                         ELSE IF result.kind # "union" THEN PanicRef
                         ELSE UnionFold(UnionRef(Append(result.refs, ref)), Tail(refs))
                 IN merged(RefMerge(result, ref))

\* UnionRef.Union
UnionRefUnion(r, refs) ==
    LET sorted(result) ==
            IF result.kind # "union" THEN PanicRef
            ELSE IF Len(result.refs) = 1 THEN result.refs[1]
            ELSE IF \E i \in DOMAIN result.refs : result.refs[i].kind = "nil" THEN PanicRef
            ELSE UnionRef(SortRefs(result.refs))
    IN sorted(UnionFold(r, refs))

\* NewUnionRef
NewUnionRef(refs) == UnionRefUnion(UnionRef(<<>>), refs)

\* r.Union(refs...): every other kind of ref appends itself and calls NewUnionRef
RefUnion(r, refs) ==
    IF r.kind \in {"nil", "panic"} THEN PanicRef
    ELSE IF r.kind = "union" THEN UnionRefUnion(r, refs)
    ELSE NewUnionRef(Append(refs, r))

\* individualRefs
individualRefs(ref) == IF ref.kind = "union" THEN ref.refs ELSE <<ref>>

RECURSIVE Flatten(_)
Flatten(seqs) == IF seqs = <<>> THEN <<>> ELSE Head(seqs) \o Flatten(Tail(seqs))

RECURSIVE Vars(_)
\* Ref.Vars of each kind of ref.  The callers hold refs that are not nil.
Vars(ref) ==
    CASE ref.kind = "var" -> <<ref.var>>
      [] ref.kind = "array" ->
            LET indicies == ToIndicies(ref.selection)
            IN [i \in DOMAIN indicies |->
                  VarRef(Append(ref.var.path, IndexStep(indicies[i])), Depth(ref) + 1)]
      [] ref.kind = "map" ->
            [i \in DOMAIN ref.keys |->
                  VarRef(Append(ref.var.path, KeyStep(ref.keys[i])), Depth(ref) + 1)]
      [] ref.kind = "union" -> Flatten([i \in DOMAIN ref.refs |-> Vars(ref.refs[i])])
      [] ref.kind = "literal" -> <<LiteralVar(ref.value)>>
      [] ref.kind = "latent" -> <<>>

RECURSIVE Values(_, _)
\* Ref.Values of each kind of ref; <<PanicVal>> when reading them panics
Values(w, ref) ==
    CASE ref.kind = "var" -> <<VarValue(w, ref.var)>>
      [] ref.kind = "array" ->
            LET indicies == ToIndicies(ref.selection)
                array == CanonicalValue(w, ref.var)
            IN IF array.t # "arr" THEN <<PanicVal>>
               ELSE IF \E i \in DOMAIN indicies :
                          indicies[i] < 0 \/ indicies[i] >= Len(w.heap[array.v].a)
               THEN <<PanicVal>>
               ELSE [i \in DOMAIN indicies |-> w.heap[array.v].a[indicies[i] + 1]]
      [] ref.kind = "map" ->
            LET current == CanonicalValue(w, ref.var)
            IN IF current.t # "map" THEN <<PanicVal>>
               ELSE SelectSeq([i \in DOMAIN ref.keys |-> MapGet(w.heap[current.v].m, ref.keys[i])],
                              LAMBDA val : val # Nil)
      [] ref.kind = "union" -> Flatten([i \in DOMAIN ref.refs |-> Values(w, ref.refs[i])])
      [] ref.kind = "literal" -> <<ref.value>>
      [] ref.kind = "latent" -> <<>>
      [] OTHER -> <<PanicVal>>

(***************************************************************************)
(* Queries, as the trees the parser builds.                                *)
(***************************************************************************)
FieldNode(name) == [n |-> "field", name |-> name]
ExistingFieldNode(name) == [n |-> "existingField", name |-> name]
IndexNode(value) == [n |-> "index", value |-> value]
WildcardNode == [n |-> "wildcard"]
RecursiveNode == [n |-> "recursive"]
SelfNode == [n |-> "self"]
StringNode(value) == [n |-> "string", value |-> value]
IntNode(value) == [n |-> "int", value |-> value]
UnionNode(nodes) == [n |-> "union", nodes |-> nodes]
PathNode(nodes) == [n |-> "path", nodes |-> nodes]
\* sliceNode: a bound that is not specified is given as NotSpecified
NotSpecified == [specified |-> FALSE, value |-> 0]
Specified(value) == [specified |-> TRUE, value |-> value]
\* the nil node: the rhs of a filter whose operator is unary
NoNode == [n |-> "none"]
FilterNode(lhs, operator, rhs) == [n |-> "filter", lhs |-> lhs, rhs |-> rhs, operator |-> operator]
SliceNode(start, end, step) == [n |-> "slice", start |-> start, end |-> end, step |-> step]

(***************************************************************************)
(* Evaluation.  Every process function takes the world and returns the     *)
(* world with the ref: evaluating a field makes LatentMapRefs and adds     *)
(* keys to them.                                                           *)
(***************************************************************************)
Out(w, ref) ==
    [w |-> IF ref.kind = "panic" THEN Panic(w, "panic while matching") ELSE w, ref |-> ref]

NoInput(input) == input.kind \in {"nil", "panic"}

NewMapRef(w, variable, keys) ==
    IF CanonicalValue(w, variable).t # "map" THEN PanicRef
    ELSE MapRef(variable, SortStrings(keys))

NewArrayRef(w, variable, selection) ==
    IF CanonicalValue(w, variable).t # "arr" THEN PanicRef
    ELSE ArrayRef(variable, selection)

\* the keys of a MapRef that are missing, nil or not maps, in order
missingKeys(w, r) ==
    LET value == w.heap[CanonicalValue(w, r.var).v].m
    IN SelectSeq(r.keys, LAMBDA key : MapGet(value, key).t # "map")

\* MapRef.GetLatentMapRef: the world with the new LatentMapRef, and its index
\* in lat, or 0 for nil
GetLatentMapRef(w, r) ==
    IF CanonicalValue(w, r.var).t # "map"
    THEN [w |-> Panic(w, "interface conversion: not a map"), id |-> 0]
    ELSE IF Len(missingKeys(w, r)) > 0
    THEN [w |-> [w EXCEPT !.lat = Append(@, [root |-> NewMapRef(w, r.var, missingKeys(w, r)),
                                              keyPath |-> <<>>])],
          id |-> Len(w.lat) + 1]
    ELSE [w |-> w, id |-> 0]

RECURSIVE latentLoop(_, _, _)
latentLoop(w, refs, result) ==
    IF refs = <<>> \/ Faulted(w) THEN [w |-> w, ids |-> result]
    ELSE LET t == Head(refs)
         IN IF t.kind = "map"
            THEN LET g == GetLatentMapRef(w, t)
                 IN latentLoop(g.w, Tail(refs), IF g.id # 0 THEN Append(result, g.id) ELSE result)
            ELSE IF t.kind = "latent" THEN latentLoop(w, Tail(refs), Append(result, t.id))
            ELSE latentLoop(w, Tail(refs), result)

\* latentMapRefs
latentMapRefs(w, ref) == latentLoop(w, individualRefs(ref), <<>>)

\* LatentMapRef.AddKey
AddKey(w, id, key) == [w EXCEPT !.lat[id].keyPath = Append(@, key)]

RECURSIVE fieldVars(_, _, _, _, _)
\* the first loop of processFieldSelection
fieldVars(w, varRefs, name, requireFieldToExist, results) ==
    IF varRefs = <<>> \/ results.kind = "panic" THEN results
    ELSE LET varRef == Head(varRefs)
             rest == Tail(varRefs)
         IN IF ~IsMap(w, varRef)
            THEN fieldVars(w, rest, name, requireFieldToExist, results)
            ELSE IF requireFieldToExist
                    /\ name \notin MapKeys(w.heap[CanonicalValue(w, varRef).v].m)
            THEN fieldVars(w, rest, name, requireFieldToExist, results)
            ELSE fieldVars(w, rest, name, requireFieldToExist,
                           RefUnion(results, <<NewMapRef(w, varRef, <<name>>)>>))

RECURSIVE fieldLatents(_, _, _, _)
\* the second loop of processFieldSelection
fieldLatents(w, ids, name, results) ==
    IF ids = <<>> \/ results.kind = "panic" THEN Out(w, results)
    ELSE fieldLatents(AddKey(w, Head(ids), name), Tail(ids), name,
                      RefUnion(results, <<LatentRef(Head(ids))>>))

\* processFieldSelection as it would be if an existing field were not required
fieldSelectionNotRequired(w, input, name, requireFieldToExist) ==
    IF NoInput(input) THEN Out(w, PanicRef)
    ELSE LET latent(results, l) ==
                 IF Faulted(l.w) THEN [w |-> l.w, ref |-> PanicRef]
                 ELSE fieldLatents(l.w, l.ids, name, results)
             selected(results) ==
                 IF results.kind = "panic" THEN Out(w, results)
                 ELSE latent(results, latentMapRefs(w, input))
         IN selected(fieldVars(w, Vars(input), name, FALSE, NewEmptyRef))

processFieldSelection(w, input, name, requireFieldToExist) ==
    IF NoInput(input) THEN Out(w, PanicRef)
    ELSE LET latent(results, l) ==
                 IF Faulted(l.w) THEN [w |-> l.w, ref |-> PanicRef]
                 ELSE fieldLatents(l.w, l.ids, name, results)
             selected(results) ==
                 IF requireFieldToExist \/ results.kind = "panic" THEN Out(w, results)
                 ELSE latent(results, latentMapRefs(w, input))
         IN selected(fieldVars(w, Vars(input), name, requireFieldToExist, NewEmptyRef))

\* IndexSelection as it would be with an off-by-one upper limit
IndexSelectionUpTo(len, value) ==
    IF len = 0 /\ (value = 0 \/ value = -1) THEN <<Region(0, 0)>>
    ELSE LET index == IF value < 0 THEN value + len ELSE value
         IN IF index >= 0 /\ index <= len THEN <<Region(index, index + 1)>> ELSE <<>>

\* the region processIndex selects in an array of length len; <<>> for none
IndexSelection(len, value) ==
    IF len = 0 /\ (value = 0 \/ value = -1) THEN <<Region(0, 0)>>
    ELSE LET index == IF value < 0 THEN value + len ELSE value
         IN IF index >= 0 /\ index < len THEN <<Region(index, index + 1)>> ELSE <<>>

RECURSIVE indexVars(_, _, _, _)
indexVars(w, varRefs, value, result) ==
    IF varRefs = <<>> \/ result.kind = "panic" THEN result
    ELSE IF ~IsSlice(w, Head(varRefs)) THEN indexVars(w, Tail(varRefs), value, result)
    ELSE LET sel == IndexSelection(Len(w.heap[CanonicalValue(w, Head(varRefs)).v].a), value)
         IN indexVars(w, Tail(varRefs), value,
                      IF sel = <<>> THEN result
                      ELSE RefUnion(result, <<NewArrayRef(w, Head(varRefs), sel)>>))

processIndex(w, input, node) ==
    IF NoInput(input) THEN Out(w, PanicRef)
    ELSE Out(w, indexVars(w, Vars(input), node.value, NewEmptyRef))

RECURSIVE StepIndicies(_, _, _)
\* for i := start; i < end; i += step, with a positive step
StepIndicies(i, end, step) ==
    IF i < end THEN <<i>> \o StepIndicies(i + step, end, step) ELSE <<>>

\* SliceSelection as it would be if end were not clamped to the length
SliceSelectionUnclamped(len, node) ==
    LET start0 == IF node.start.specified THEN node.start.value ELSE 0
        start1 == IF start0 < 0 THEN start0 + len ELSE start0
        end0 == IF node.end.specified THEN node.end.value ELSE len
        end2 == IF end0 < 0 THEN end0 + len ELSE end0
        start2 == IF start1 < 0 THEN 0 ELSE start1
        zero == node.step.specified /\ node.step.value = 0
        end3 == IF zero /\ end2 # start2 THEN start2 + 1 ELSE end2
        step == IF ~node.step.specified \/ zero THEN 1 ELSE node.step.value
        start == IF step < 0 THEN end3 ELSE start2
        end == IF step < 0 THEN start2 ELSE end3
    IN IF step = 1 THEN [out |-> "ok", regions |-> <<Region(start2, end3)>>]
       ELSE IF end - start < 0 THEN [out |-> "panic", regions |-> <<>>]
       ELSE IF step < 0 /\ start < end THEN [out |-> "diverge", regions |-> <<>>]
       ELSE [out |-> "ok", regions |-> NewRegionForEachIndex(StepIndicies(start, end, step))]

\* The selection processSlice makes in an array of length len.  With a step
\* other than 1 the bounds can make the make() of the index slice panic
\* (negative capacity), and with a negative step the loop counts down from
\* start and never reaches end: it appends until memory runs out ("diverge").
SliceSelection(len, node) ==
    LET start0 == IF node.start.specified THEN node.start.value ELSE 0
        start1 == IF start0 < 0 THEN start0 + len ELSE start0
        end0 == IF node.end.specified THEN node.end.value ELSE len
        end1 == IF end0 < 0 THEN end0 + len ELSE end0
        start2 == IF start1 < 0 THEN 0 ELSE start1
        end2 == IF end1 > len THEN len ELSE end1
        zero == node.step.specified /\ node.step.value = 0
        end3 == IF zero /\ end2 # start2 THEN start2 + 1 ELSE end2
        step == IF ~node.step.specified \/ zero THEN 1 ELSE node.step.value
        start == IF step < 0 THEN end3 ELSE start2
        end == IF step < 0 THEN start2 ELSE end3
    IN IF step = 1 THEN [out |-> "ok", regions |-> <<Region(start2, end3)>>]
       ELSE IF end - start < 0 THEN [out |-> "panic", regions |-> <<>>]
       ELSE IF step < 0 /\ start < end THEN [out |-> "diverge", regions |-> <<>>]
       ELSE [out |-> "ok", regions |-> NewRegionForEachIndex(StepIndicies(start, end, step))]

RECURSIVE sliceVars(_, _, _, _)
sliceVars(w, varRefs, node, result) ==
    IF varRefs = <<>> \/ result.w.panic # "" THEN result
    ELSE IF ~IsSlice(w, Head(varRefs)) THEN sliceVars(w, Tail(varRefs), node, result)
    ELSE LET sel == SliceSelection(Len(w.heap[CanonicalValue(w, Head(varRefs)).v].a), node)
         IN IF sel.out = "panic"
            THEN [w |-> Panic(w, "makeslice: cap out of range"), ref |-> PanicRef]
            ELSE IF sel.out = "diverge"
            THEN [w |-> Panic(w, "diverge"), ref |-> PanicRef]
            ELSE sliceVars(w, Tail(varRefs), node,
                           Out(w, RefUnion(result.ref,
                                           <<NewArrayRef(w, Head(varRefs), sel.regions)>>)))

processSlice(w, input, node) ==
    IF NoInput(input) THEN Out(w, PanicRef)
    ELSE sliceVars(w, Vars(input), node, Out(w, NewEmptyRef))

\* matchAllChildren
matchAllChildren(w, varRef) ==
    IF IsMap(w, varRef)
    THEN RefUnion(NewEmptyRef,
                  <<NewMapRef(w, varRef,
                              SetToSortedSeq(MapKeys(w.heap[CanonicalValue(w, varRef).v].m)))>>)
    ELSE IF IsSlice(w, varRef)
    THEN RefUnion(NewEmptyRef,
                  <<NewArrayRef(w, varRef,
                                <<Region(0, Len(w.heap[CanonicalValue(w, varRef).v].a))>>)>>)
    ELSE NewEmptyRef

RECURSIVE wildcardVars(_, _, _)
wildcardVars(w, varRefs, result) ==
    IF varRefs = <<>> \/ result.kind = "panic" THEN result
    ELSE wildcardVars(w, Tail(varRefs), RefUnion(result, <<matchAllChildren(w, Head(varRefs))>>))

processWildcard(w, input) ==
    IF NoInput(input) THEN Out(w, PanicRef)
    ELSE Out(w, wildcardVars(w, Vars(input), NewEmptyRef))

RECURSIVE recursiveVars(_, _, _)
RECURSIVE recursiveRef(_, _)
recursiveVars(w, varRefs, result) ==
    IF varRefs = <<>> \/ result.kind = "panic" THEN result
    ELSE recursiveVars(w, Tail(varRefs),
                       RefUnion(result,
                                <<recursiveRef(w, matchAllChildren(w, Head(varRefs)))>>))

\* the ref processRecursive returns: the input and all its descendants
recursiveRef(w, input) ==
    IF NoInput(input) THEN PanicRef ELSE recursiveVars(w, Vars(input), input)

processRecursive(w, input) == Out(w, recursiveRef(w, input))

RECURSIVE IsEmpty(_)
\* Ref.IsEmpty of each kind of ref.  The callers hold refs that are not nil.
IsEmpty(ref) ==
    CASE ref.kind = "array" -> IndiciesCount(ref.selection) = 0
      [] ref.kind = "map" -> ref.keys = <<>>
      [] ref.kind = "union" -> \A i \in DOMAIN ref.refs : IsEmpty(ref.refs[i])
      [] ref.kind = "latent" -> TRUE
      [] OTHER -> FALSE

\* the comparisons of the template package on two values: the result, and
\* whether the values cannot be compared (ErrBadComparisonType,
\* ErrBadComparison).  Scalars compare as numbers; anything else does not
\* compare.
Compare(operator, left, right) ==
    IF left.t # "s" \/ right.t # "s" THEN [result |-> FALSE, bad |-> TRUE]
    ELSE [result |-> CASE operator = "LT" -> left.v < right.v
                       [] operator = "GT" -> left.v > right.v
                       [] operator = "Equals" -> left.v = right.v
                       [] operator = "NEQ" -> left.v # right.v
                       [] operator = "LTE" -> left.v <= right.v
                       [] operator = "GTE" -> left.v >= right.v,
          bad |-> FALSE]

ComparisonOperators == {"LT", "GT", "Equals", "NEQ", "LTE", "GTE"}

\* applyFilter: the world, and whether the element matches.  A nil Ref makes
\* the call of a method on it panic.
applyFilter(w, lhs, rhs, node) ==
    LET no(w2) == [w |-> w2, match |-> FALSE]
        compared(c) == [w |-> w, match |-> c.result /\ ~c.bad]
        values(lhsValues, rhsValues) ==
            IF \E i \in DOMAIN lhsValues : lhsValues[i] = PanicVal
            THEN no(Panic(w, "panic while reading values"))
            ELSE IF Len(lhsValues) = 0 THEN no(w)
            ELSE IF node.operator = "Exists" THEN [w |-> w, match |-> TRUE]
            ELSE IF NoInput(rhs) THEN no(Panic(w, "nil pointer dereference"))
            ELSE IF \E i \in DOMAIN rhsValues : rhsValues[i] = PanicVal
            THEN no(Panic(w, "panic while reading values"))
            ELSE IF Len(rhsValues) = 0 THEN no(w)
            ELSE IF Len(lhsValues) > 1 \/ Len(rhsValues) > 1 THEN no(w)
            ELSE IF node.operator \notin ComparisonOperators
            THEN no(Error(w, "unrecognized filter operator"))
            ELSE compared(Compare(node.operator, lhsValues[1], rhsValues[1]))
    IN IF Faulted(w) THEN no(w)
       ELSE IF NoInput(lhs) THEN no(Panic(w, "nil pointer dereference"))
       ELSE IF IsEmpty(lhs) THEN no(w)
       ELSE values(Values(w, lhs), Values(w, rhs))

RECURSIVE process(_, _, _)
RECURSIVE pathNodes(_, _, _)
RECURSIVE unionNodes(_, _, _, _)
RECURSIVE filterElements(_, _, _, _)
RECURSIVE filterVars(_, _, _, _)
\* the inner loops of processFilter: lhs, rhs and applyFilter for each element
\* ref in turn; isMatch of each element so far is in flags
filterElements(w, elements, node, flags) ==
    IF elements = <<>> \/ Faulted(w) THEN [w |-> w, flags |-> flags]
    ELSE LET applied(f) ==
                 filterElements(f.w, Tail(elements), node, Append(flags, f.match))
             withRhs(l, r) == applied(applyFilter(r.w, l.ref, r.ref, node))
             withLhs(l) ==
                 IF Faulted(l.w) THEN [w |-> l.w, flags |-> flags]
                 ELSE IF node.rhs = NoNode THEN withRhs(l, [w |-> l.w, ref |-> NilRef])
                 ELSE withRhs(l, process(l.w, Head(elements), node.rhs))
         IN withLhs(process(w, Head(elements), node.lhs))

\* the items of a list whose flag is set
Matches(items, flags) ==
    LET picked == SelectSeq([i \in DOMAIN items |-> <<items[i], i \in DOMAIN flags /\ flags[i]>>],
                            LAMBDA pair : pair[2])
    IN [i \in DOMAIN picked |-> picked[i][1]]

\* the outer loop of processFilter
filterVars(w, varRefs, node, result) ==
    IF varRefs = <<>> \/ Faulted(w) \/ result.kind = "panic" THEN Out(w, result)
    ELSE IF IsMap(w, Head(varRefs))
    THEN LET mapRef == matchAllChildren(w, Head(varRefs))
             matched(f) ==
                 IF Faulted(f.w) THEN [w |-> f.w, ref |-> result]
                 ELSE filterVars(f.w, Tail(varRefs), node,
                                 RefUnion(result, <<NewMapRef(f.w, mapRef.var,
                                                              Matches(mapRef.keys, f.flags))>>))
         IN matched(filterElements(w, [i \in DOMAIN mapRef.keys |->
                                           NewMapRef(w, mapRef.var, <<mapRef.keys[i]>>)],
                                   node, <<>>))
    ELSE IF IsSlice(w, Head(varRefs))
    THEN LET arrayRef == matchAllChildren(w, Head(varRefs))
             indicies == ToIndicies(arrayRef.selection)
             matched(f) ==
                 IF Faulted(f.w) THEN [w |-> f.w, ref |-> result]
                 ELSE filterVars(f.w, Tail(varRefs), node,
                                 RefUnion(result,
                                          <<NewArrayRef(f.w, arrayRef.var,
                                                NewRegionForEachIndex(
                                                    Matches(indicies, f.flags)))>>))
         IN matched(filterElements(w, [i \in DOMAIN indicies |->
                                           NewArrayRef(w, arrayRef.var,
                                               NewRegionForEachIndex(<<indicies[i]>>))],
                                   node, <<>>))
    ELSE filterVars(w, Tail(varRefs), node, result)

processFilter(w, input, node) ==
    IF NoInput(input) THEN Out(w, PanicRef)
    ELSE filterVars(w, Vars(input), node, NewEmptyRef)

\* the loop of processPath
pathNodes(w, result, nodes) ==
    IF nodes = <<>> \/ Faulted(w) THEN [w |-> w, ref |-> result]
    ELSE LET next(r) == pathNodes(r.w, r.ref, Tail(nodes))
         IN next(process(w, result, Head(nodes)))

\* the loop of processUnion
unionNodes(w, input, nodes, result) ==
    IF nodes = <<>> \/ Faulted(w) THEN [w |-> w, ref |-> result]
    ELSE LET subset(r) ==
                 IF Faulted(r.w) THEN r
                 ELSE unionNodes(r.w, input, Tail(nodes), RefUnion(result, <<r.ref>>))
         IN subset(process(w, input, Head(nodes)))

processPath(w, input, list) == pathNodes(w, input, list.nodes)

processUnion(w, input, n) == unionNodes(w, input, n.nodes, NewEmptyRef)

\* process: the dispatch on the kind of node
process(w, input, root) ==
    CASE root.n = "path" -> processPath(w, input, root)
      [] root.n = "string" -> Out(w, LiteralRef(root.value))
      [] root.n = "field" -> processFieldSelection(w, input, root.name, FALSE)
      [] root.n = "existingField" -> processFieldSelection(w, input, root.name, TRUE)
      [] root.n = "index" -> processIndex(w, input, root)
      [] root.n = "slice" -> processSlice(w, input, root)
      [] root.n = "filter" -> processFilter(w, input, root)
      [] root.n = "int" -> Out(w, LiteralRef(root.value))
      [] root.n = "wildcard" -> processWildcard(w, input)
      [] root.n = "recursive" -> processRecursive(w, input)
      [] root.n = "union" -> processUnion(w, input, root)
      [] root.n = "self" -> Out(w, input)
      [] OTHER -> [w |-> Error(w, "unexpected node"), ref |-> NilRef]

(***************************************************************************)
(* Mutation.  Each operation takes the world and a ref and returns the     *)
(* world and the ref as the operation leaves them: ArrayRef.Delete and     *)
(* ArrayRef.MutateRegions assign the ref's selection.                      *)
(***************************************************************************)
RECURSIVE buildMapBabushka(_, _, _)
\* buildMapBabushka: the world with the nested maps in it, and the outermost map
buildMapBabushka(w, keyPath, value) ==
    IF keyPath = <<>> THEN [w |-> Alloc(w, MapCell({})), val |-> MapVal(Len(w.heap) + 1)]
    ELSE IF Len(keyPath) = 1
    THEN [w |-> Alloc(w, MapCell({KV(keyPath[1], value)})), val |-> MapVal(Len(w.heap) + 1)]
    ELSE LET next == buildMapBabushka(w, Tail(keyPath), value)
         IN [w |-> Alloc(next.w, MapCell({KV(keyPath[1], next.val)})),
             val |-> MapVal(Len(next.w.heap) + 1)]

RECURSIVE putKeys(_, _, _)
\* for _, key := range r.keys { modified[key] = value }
putKeys(entries, keys, value) ==
    IF keys = <<>> THEN entries ELSE putKeys(MapPut(entries, Head(keys), value), Tail(keys), value)

RECURSIVE delKeys(_, _)
\* for _, key := range r.keys { delete(modified, key) }
delKeys(entries, keys) ==
    IF keys = <<>> THEN entries ELSE delKeys(MapDel(entries, Head(keys)), Tail(keys))

\* MapRef.Set
MapRefSet(w, r, value) ==
    LET c == cloneMap(w, r.var)
    IN IF Faulted(c.w) THEN c.w
       ELSE SetWithMatchedType([c.w EXCEPT !.heap[c.addr].m = putKeys(@, r.keys, value)],
                               r.var, MapVal(c.addr))

\* MapRef.Delete
MapRefDelete(w, r) ==
    LET c == cloneMap(w, r.var)
    IN IF Faulted(c.w) THEN c.w
       ELSE SetWithMatchedType([c.w EXCEPT !.heap[c.addr].m = delKeys(@, r.keys)],
                               r.var, MapVal(c.addr))

\* ArrayRef.Set
ArrayRefSet(w, r, value) ==
    LET c == cloneArray(w, r.var)
    IN IF Faulted(c.w) THEN c.w
       ELSE SetWithMatchedType(
                [c.w EXCEPT !.heap[c.addr].a =
                    [i \in DOMAIN @ |->
                        IF RegionsContainsIndex(r.selection, i - 1) THEN value ELSE @[i]]],
                r.var, ArrVal(c.addr))

\* the items of the regions of a slice, in order, as ArrayRef.Delete appends them
keepItems(current, regions) ==
    LET indicies == ToIndicies(regions)
    IN [i \in DOMAIN indicies |-> current[indicies[i] + 1]]

\* ArrayRef.Delete as it would be if the regions to keep stopped one short of
\* len(current)
ArrayRefDeleteShort(w, r) ==
    LET value == CanonicalValue(w, r.var)
        current == w.heap[value.v].a
        regionsToKeep == RegionsIntersect(<<Region(0, Len(current) - 1)>>, r.selection)
    IN IF value.t # "arr"
       THEN [w |-> Panic(w, "interface conversion: not a slice"), selection |-> r.selection]
       ELSE IF IndiciesCount(regionsToKeep) < 0
       THEN [w |-> Panic(w, "makeslice: cap out of range"), selection |-> r.selection]
       ELSE IF ~InBounds(regionsToKeep, current)
       THEN [w |-> Panic(w, "index out of range"), selection |-> r.selection]
       ELSE LET set(w2) == [w |-> w2, selection |-> IF Faulted(w2) THEN r.selection ELSE <<>>]
            IN set(SetWithMatchedType(Alloc(w, ArrCell(keepItems(current, regionsToKeep))),
                                      r.var, ArrVal(Len(w.heap) + 1)))

\* ArrayRef.Delete: the world, and the selection the ref is left with
ArrayRefDelete(w, r) ==
    LET value == CanonicalValue(w, r.var)
        current == w.heap[value.v].a
        regionsToKeep == RegionsIntersect(<<Region(0, Len(current))>>, r.selection)
    IN IF value.t # "arr"
       THEN [w |-> Panic(w, "interface conversion: not a slice"), selection |-> r.selection]
       ELSE IF IndiciesCount(regionsToKeep) < 0
       THEN [w |-> Panic(w, "makeslice: cap out of range"), selection |-> r.selection]
       ELSE IF ~InBounds(regionsToKeep, current)
       THEN [w |-> Panic(w, "index out of range"), selection |-> r.selection]
       ELSE LET set(w2) == [w |-> w2, selection |-> IF Faulted(w2) THEN r.selection ELSE <<>>]
            IN set(SetWithMatchedType(Alloc(w, ArrCell(keepItems(current, regionsToKeep))),
                                      r.var, ArrVal(Len(w.heap) + 1)))

(***************************************************************************)
(* Mutators.  The caller's MutatorFunc and MutateRegionsFunc are drawn     *)
(* from a few behaviours: fail with an error, replace every value by a     *)
(* constant, (regions) append a value to every region, or (regions)        *)
(* return lists of its own.                                                *)
(***************************************************************************)
FailMutator == [kind |-> "fail", value |-> Nil]
ConstMutator(value) == [kind |-> "const", value |-> value]
AppendMutator(value) == [kind |-> "append", value |-> value]

\* a regions mutator that returns the given lists whatever it is handed
ReplaceMutator(lists) == [kind |-> "replace", value |-> Nil, lists |-> lists]

\* the regions mutator applied to the extract
ApplyRegions(mutator, extract) ==
    IF mutator.kind = "append"
    THEN [k \in DOMAIN extract |-> Append(extract[k], mutator.value)]
    ELSE IF mutator.kind = "replace"
    THEN mutator.lists
    ELSE [k \in DOMAIN extract |-> <<mutator.value>>]

\* MapRef.Mutate
MapRefMutate(w, r, mutator) ==
    LET c == cloneMap(w, r.var)
    IN IF CanonicalValue(w, r.var).t # "map" THEN Panic(w, "interface conversion: not a map")
       ELSE IF r.keys # <<>> /\ mutator.kind = "fail" THEN Error(w, "mutator failed")
       ELSE SetWithMatchedType(
                [c.w EXCEPT !.heap[c.addr].m = putKeys(@, r.keys, mutator.value)],
                r.var, MapVal(c.addr))

\* the indices ArrayRef.Mutate visits: those of the regions, in order, that
\* the selection includes
mutateIndicies(selection) ==
    SelectSeq(ToIndicies(selection), LAMBDA i : RegionsContainsIndex(selection, i))

\* ArrayRef.Mutate
ArrayRefMutate(w, r, mutator) ==
    LET c == cloneArray(w, r.var)
        visited == mutateIndicies(r.selection)
    IN IF Faulted(c.w) THEN c.w
       ELSE IF visited # <<>> /\ (visited[1] < 0 \/ visited[1] >= Len(c.w.heap[c.addr].a))
       THEN Panic(w, "index out of range")
       ELSE IF visited # <<>> /\ mutator.kind = "fail" THEN Error(w, "mutator failed")
       ELSE IF \E k \in DOMAIN visited : visited[k] < 0 \/ visited[k] >= Len(c.w.heap[c.addr].a)
       THEN Panic(w, "index out of range")
       ELSE SetWithMatchedType(
                [c.w EXCEPT !.heap[c.addr].a =
                    [i \in DOMAIN @ |->
                        IF \E k \in DOMAIN visited : visited[k] = i - 1
                        THEN mutator.value ELSE @[i]]],
                r.var, ArrVal(c.addr))

\* ArrayRef.MutateRegions as it would be without "Update the positions of the
\* matched indicies"
ArrayRefMutateRegionsInPlace(w, r, mutator) ==
    LET value == CanonicalValue(w, r.var)
        original == w.heap[value.v].a
        extract == ExtractItems(r.selection, original)
        m == MergeItems(r.selection, original, ApplyRegions(mutator, extract))
        keep(w2) == [w |-> w2, selection |-> r.selection]
    IN IF value.t # "arr" THEN keep(Panic(w, "interface conversion: not a slice"))
       ELSE IF ~ExtractOk(r.selection, original) THEN keep(Panic(w, "index out of range"))
       ELSE IF mutator.kind = "fail" THEN keep(Error(w, "mutator failed"))
       ELSE IF m.panic THEN keep(Panic(w, "index out of range"))
       ELSE LET set(w2) == IF Faulted(w2) THEN keep(w2) ELSE [w |-> w2, selection |-> r.selection]
            IN set(SetWithMatchedType(Alloc(w, ArrCell(m.merged)), r.var,
                                      ArrVal(Len(w.heap) + 1)))

\* ArrayRef.MutateRegions: the world, and the selection the ref is left with
ArrayRefMutateRegions(w, r, mutator) ==
    LET value == CanonicalValue(w, r.var)
        original == w.heap[value.v].a
        extract == ExtractItems(r.selection, original)
        m == MergeItems(r.selection, original, ApplyRegions(mutator, extract))
        keep(w2) == [w |-> w2, selection |-> r.selection]
    IN IF value.t # "arr" THEN keep(Panic(w, "interface conversion: not a slice"))
       ELSE IF ~ExtractOk(r.selection, original) THEN keep(Panic(w, "index out of range"))
       ELSE IF mutator.kind = "fail" THEN keep(Error(w, "mutator failed"))
       ELSE IF m.panic THEN keep(Panic(w, "index out of range"))
       ELSE LET set(w2) == IF Faulted(w2) THEN keep(w2) ELSE [w |-> w2, selection |-> m.regions]
            IN set(SetWithMatchedType(Alloc(w, ArrCell(m.merged)), r.var,
                                      ArrVal(Len(w.heap) + 1)))

RECURSIVE RefSet(_, _, _)
RECURSIVE setEach(_, _, _)
\* the loop of UnionRef.Set: it stops at the first member that fails
setEach(w, refs, value) ==
    IF refs = <<>> \/ Faulted(w) THEN w ELSE setEach(RefSet(w, Head(refs), value), Tail(refs), value)

\* LatentMapRef.Set
LatentSet(w, r, value) ==
    LET b == buildMapBabushka(w, w.lat[r.id].keyPath, value)
        root == w.lat[r.id].root
    IN IF root.kind = "union" /\ root.refs = <<>> THEN w ELSE RefSet(b.w, root, b.val)

\* ref.Set(value) for each kind of ref
RefSet(w, ref, value) ==
    IF Faulted(w) THEN w
    ELSE CASE ref.kind = "var" -> VarSet(w, ref.var, value)
           [] ref.kind = "array" -> ArrayRefSet(w, ref, value)
           [] ref.kind = "map" -> MapRefSet(w, ref, value)
           [] ref.kind = "union" -> setEach(w, ref.refs, value)
           [] ref.kind = "literal" -> Panic(w, "Attempt to set value of LiteralRef")
           [] ref.kind = "latent" -> LatentSet(w, ref, value)
           [] OTHER -> Panic(w, "nil pointer dereference")

RECURSIVE RefDelete(_, _)
RECURSIVE deleteEach(_, _, _)
\* the loop of UnionRef.Delete; done holds the members as Delete left them
deleteEach(w, refs, done) ==
    IF refs = <<>> \/ Faulted(w) THEN [w |-> w, ref |-> UnionRef(done \o refs)]
    ELSE LET next(d) == deleteEach(d.w, Tail(refs), Append(done, d.ref))
         IN next(RefDelete(w, Head(refs)))

\* ref.Delete() for each kind of ref
RefDelete(w, ref) ==
    IF Faulted(w) THEN [w |-> w, ref |-> ref]
    ELSE CASE ref.kind = "var" ->
                [w |-> Error(w, "Delete not supported for VarRefs"), ref |-> ref]
           [] ref.kind = "array" ->
                LET deleted(d) == [w |-> d.w, ref |-> ArrayRef(ref.var, d.selection)]
                IN deleted(ArrayRefDelete(w, ref))
           [] ref.kind = "map" -> [w |-> MapRefDelete(w, ref), ref |-> ref]
           [] ref.kind = "union" -> deleteEach(w, ref.refs, <<>>)
           [] ref.kind = "literal" -> [w |-> Panic(w, "Attempt to delete LiteralRef"), ref |-> ref]
           [] ref.kind = "latent" -> [w |-> w, ref |-> ref]
           [] OTHER -> [w |-> Panic(w, "nil pointer dereference"), ref |-> ref]

\* VarRef.Mutate: the setter is called without the compatibility check
VarRefMutate(w, var, mutator) ==
    IF VarValue(w, var) = PanicVal THEN Panic(w, "panic in getter")
    ELSE IF mutator.kind = "fail" THEN Error(w, "mutator failed")
    ELSE setter(w, var, mutator.value)

\* LatentMapRef.Mutate
LatentMutate(w, r, mutator) ==
    LET b == buildMapBabushka(w, w.lat[r.id].keyPath, mutator.value)
        root == w.lat[r.id].root
    IN IF root.kind = "union" /\ root.refs = <<>> THEN w
       ELSE IF root.kind # "map" THEN Panic(w, "interface conversion: not a MapRef")
       ELSE IF mutator.kind = "fail" THEN Error(w, "mutator failed")
       ELSE RefSet(b.w, root, b.val)

RECURSIVE RefMutate(_, _, _)
RECURSIVE mutateEach(_, _, _)
\* the loop of UnionRef.Mutate
mutateEach(w, refs, mutator) ==
    IF refs = <<>> \/ Faulted(w) THEN w
    ELSE mutateEach(RefMutate(w, Head(refs), mutator), Tail(refs), mutator)

\* ref.Mutate(mutator) for each kind of ref
RefMutate(w, ref, mutator) ==
    IF Faulted(w) THEN w
    ELSE CASE ref.kind = "var" -> VarRefMutate(w, ref.var, mutator)
           [] ref.kind = "array" -> ArrayRefMutate(w, ref, mutator)
           [] ref.kind = "map" -> MapRefMutate(w, ref, mutator)
           [] ref.kind = "union" -> mutateEach(w, ref.refs, mutator)
           [] ref.kind = "literal" -> Panic(w, "Attempt to mutate value of LiteralRef")
           [] ref.kind = "latent" -> LatentMutate(w, ref, mutator)
           [] OTHER -> Panic(w, "nil pointer dereference")

(***************************************************************************)
(* MatchSet.  root is the variable `data` the root VarRef's closures       *)
(* capture: each Match call has its own.  An operation on a MatchSet runs  *)
(* in the world of that variable and returns the world and the MatchSet.   *)
(***************************************************************************)
MatchSet(root, ref, query) == [root |-> root, ref |-> ref, mutated |-> FALSE, query |-> query]

AlreadyMutated == "This extract has allready mutated once"
ValuesAfterMutation == "Values are not availible after extract has been mutated"
NotArrayMembers == "Cannot mutate regions of a ref. All selected values must be array members"

WorldOf(h, l, e) == World(h, e.root, l)

\* Expression.Match: the world after the evaluation, and the ref
Match(h, l, data, expr) == process(World(h, data, l), VarRefRef(RootVar), expr)

\* MatchSet.Values as it would be without the test of `mutated`
ValuesUnguarded(w, e) ==
    LET vals == Values(w, e.ref)
    IN IF \E k \in DOMAIN vals : vals[k] = PanicVal
       THEN [w |-> Panic(w, "panic in Values"), vals |-> <<>>]
       ELSE [w |-> w, vals |-> vals]

\* MatchSet.Values: the values, or a panic
MatchSetValues(w, e) ==
    IF e.mutated THEN [w |-> Panic(w, ValuesAfterMutation), vals |-> <<>>]
    ELSE LET vals == Values(w, e.ref)
         IN IF \E k \in DOMAIN vals : vals[k] = PanicVal
            THEN [w |-> Panic(w, "panic in Values"), vals |-> <<>>]
            ELSE [w |-> w, vals |-> vals]

\* the tail of Set, Delete, Mutate and MutateRegions as it would be if
\* mutated were assigned before the error is looked at
MutatedAnyway(w, e, ref) ==
    [w |-> w, e |-> [e EXCEPT !.ref = ref, !.root = w.root, !.mutated = TRUE]]

\* the tail of Set, Delete, Mutate and MutateRegions: mutated is assigned
\* when the ref's operation returned no error
Mutated(w, e, ref) ==
    [w |-> w, e |-> [e EXCEPT !.ref = ref, !.root = w.root, !.mutated = ~Faulted(w)]]

\* MatchSet.Set as it would be without the test of `mutated`
SetUnguarded(w, e, value) == Mutated(RefSet(w, e.ref, value), e, e.ref)

\* MatchSet.Set
MatchSetSet(w, e, value) ==
    IF e.mutated THEN [w |-> Error(w, AlreadyMutated), e |-> e]
    ELSE Mutated(RefSet(w, e.ref, value), e, e.ref)

\* MatchSet.Delete
MatchSetDelete(w, e) ==
    IF e.mutated THEN [w |-> Error(w, AlreadyMutated), e |-> e]
    ELSE LET deleted(d) == Mutated(d.w, e, d.ref) IN deleted(RefDelete(w, e.ref))

\* MatchSet.Mutate
MatchSetMutate(w, e, mutator) ==
    IF e.mutated THEN [w |-> Error(w, AlreadyMutated), e |-> e]
    ELSE Mutated(RefMutate(w, e.ref, mutator), e, e.ref)

RECURSIVE regionsEach(_, _, _, _)
\* the loop of MatchSet.MutateRegions over the array refs
regionsEach(w, refs, mutator, done) ==
    IF refs = <<>> \/ Faulted(w) THEN [w |-> w, refs |-> done \o refs]
    ELSE LET next(m) == regionsEach(m.w, Tail(refs), mutator,
                                    Append(done, ArrayRef(Head(refs).var, m.selection)))
         IN next(ArrayRefMutateRegions(w, Head(refs), mutator))

\* MatchSet.MutateRegions: the type switch has a case for *ArrayRef and one
\* for *UnionRef and no default
MatchSetMutateRegions(w, e, mutator) ==
    IF e.mutated THEN [w |-> Error(w, AlreadyMutated), e |-> e]
    ELSE IF e.ref.kind = "array"
    THEN LET one(m) == Mutated(m.w, e, m.refs[1])
         IN one(regionsEach(w, <<e.ref>>, mutator, <<>>))
    ELSE IF e.ref.kind = "union"
    THEN IF \E k \in DOMAIN e.ref.refs : e.ref.refs[k].kind # "array"
         THEN [w |-> Error(w, NotArrayMembers), e |-> e]
         ELSE LET all(m) == Mutated(m.w, e, UnionRef(m.refs))
              IN all(regionsEach(w, e.ref.refs, mutator, <<>>))
    ELSE Mutated(w, e, e.ref)

(***************************************************************************)
(* The caller.  It builds a document D, matches expressions against it and *)
(* calls the operations of the MatchSets it holds, in any order.           *)
(***************************************************************************)
MaxSets == 2
NewValue == 9

DocEmpty == TMap({})
DocHalf == TMap({KV("a", TMap({})), KV("d", TS(4))})
DocNested == TMap({KV("c", TArr(<<TS(1), TS(2)>>)), KV("e", TArr(<<TS(3)>>))})
DocKinds == TMap({KV("a", TMap({KV("b", TS(1))})), KV("c", TArr(<<TS(1), TS(2)>>))})
DocFields ==
    TMap({KV("f", TMap({KV("f", TS(1)), KV("b", TS(5))})),
          KV("a", TMap({KV("f", TS(2)), KV("b", TS(3))})),
          KV("c", TMap({KV("b", TS(6))}))})
DocFlat ==
    TMap({KV("f", TS(1)), KV("a", TMap({KV("f", TS(2)), KV("b", TS(3))})),
          KV("e", TArr(<<TMap({KV("f", TS(4))}), TS(5)>>))})

Docs == {DocEmpty, DocHalf, DocNested, DocKinds, DocFields, DocFlat}

Path2(n1, n2) == PathNode(<<n1, n2>>)
Slice(start, end) == SliceNode(start, end, NotSpecified)

\* the expressions the caller matches a document with
QueriesFor(doc) ==
    CASE doc = DocEmpty ->
            {Path2(FieldNode("a"), FieldNode("b")),
             Path2(FieldNode("a"), UnionNode(<<FieldNode("b"), FieldNode("c")>>)),
             PathNode(<<FieldNode("a"), FieldNode("b"),
                        UnionNode(<<FieldNode("b"), FieldNode("c")>>)>>),
             Path2(UnionNode(<<FieldNode("a"), FieldNode("b")>>), FieldNode("c"))}
      [] doc = DocHalf ->
            {Path2(FieldNode("a"), UnionNode(<<FieldNode("b"), FieldNode("c")>>)),
             Path2(UnionNode(<<FieldNode("a"), FieldNode("d")>>), FieldNode("c")),
             PathNode(<<FieldNode("a"), FieldNode("b"), FieldNode("c")>>)}
      [] doc = DocNested ->
            {Path2(FieldNode("c"), IndexNode(0)),
             Path2(RecursiveNode, IndexNode(0))}
      [] doc = DocKinds ->
            {UnionNode(<<Path2(FieldNode("c"), IndexNode(0)), FieldNode("a")>>),
             Path2(FieldNode("c"), Slice(Specified(1), NotSpecified)),
             SelfNode,
             StringNode(Scalar(7))}
      [] doc = DocFields ->
            {Path2(RecursiveNode, ExistingFieldNode("f")),
             Path2(RecursiveNode, ExistingFieldNode("b")),
             Path2(FieldNode("a"), WildcardNode)}
      [] doc = DocFlat ->
            {Path2(RecursiveNode, ExistingFieldNode("f")),
             Path2(RecursiveNode, ExistingFieldNode("b")),
             Path2(RecursiveNode, ExistingFieldNode("c"))}

SetValues == {Scalar(NewValue)}
Mutators == {ConstMutator(Scalar(NewValue)), FailMutator}
RegionsMutators == {AppendMutator(Scalar(NewValue))}

Outcome(w) ==
    IF w.panic = "diverge" THEN "diverge"
    ELSE IF w.panic # "" THEN "panic"
    ELSE IF w.err # "" THEN "error"
    ELSE "ok"

Message(w) == IF w.panic # "" THEN w.panic ELSE w.err

NoCall == [op |-> "none", i |-> 0, out |-> "ok", msg |-> "", vals |-> <<>>, ret |-> TNil]

\* what the caller gets from a call on MatchSet i
Returned(op, i, w, vals) ==
    [op |-> op, i |-> i, out |-> Outcome(w), msg |-> Message(w),
     vals |-> DerefSeq(w.heap, vals),
     ret |-> IF op \notin {"Match", "Values"} /\ Outcome(w) = "ok"
             THEN Deref(w.heap, w.root) ELSE TNil]

Init ==
    \E doc \in Docs :
        /\ heap = Load(<<>>, doc).heap
        /\ rootD = Load(<<>>, doc).val
        /\ doc0 = doc
        /\ latents = <<>>
        /\ sets = <<>>
        /\ last = NoCall
        /\ probe = <<>>

\* ms, err := expr.Match(D)
CallMatch ==
    \E expr \in QueriesFor(doc0) :
        /\ Len(sets) < MaxSets
        /\ LET matched(r) ==
                   /\ heap' = r.w.heap
                   /\ latents' = r.w.lat
                   /\ sets' = IF Faulted(r.w) THEN sets
                              ELSE Append(sets, MatchSet(r.w.root, r.ref, expr))
                   /\ last' = Returned("Match", Len(sets) + 1, r.w, <<>>)
           IN matched(Match(heap, latents, rootD, expr))
        /\ UNCHANGED <<rootD, doc0, probe>>

\* ms.Values()
CallValues ==
    \E i \in DOMAIN sets :
        /\ LET r == MatchSetValues(WorldOf(heap, latents, sets[i]), sets[i])
           IN last' = Returned("Values", i, r.w, r.vals)
        /\ UNCHANGED <<heap, latents, rootD, doc0, sets, probe>>

\* the state after a mutating call on MatchSet i
Called(op, i, r) ==
    /\ heap' = r.w.heap
    /\ latents' = r.w.lat
    /\ sets' = [sets EXCEPT ![i] = r.e]
    /\ last' = Returned(op, i, r.w, <<>>)
    /\ UNCHANGED <<rootD, doc0, probe>>

\* ms.Set(value)
CallSet ==
    \E i \in DOMAIN sets, value \in SetValues :
        Called("Set", i, MatchSetSet(WorldOf(heap, latents, sets[i]), sets[i], value))

\* ms.Delete()
CallDelete ==
    \E i \in DOMAIN sets :
        Called("Delete", i, MatchSetDelete(WorldOf(heap, latents, sets[i]), sets[i]))

\* ms.Mutate(mutator)
CallMutate ==
    \E i \in DOMAIN sets, mutator \in Mutators :
        Called("Mutate", i, MatchSetMutate(WorldOf(heap, latents, sets[i]), sets[i], mutator))

\* ms.MutateRegions(mutator)
CallMutateRegions ==
    \E i \in DOMAIN sets, mutator \in RegionsMutators :
        Called("MutateRegions", i,
               MatchSetMutateRegions(WorldOf(heap, latents, sets[i]), sets[i], mutator))

Next ==
    \/ CallMatch
    \/ CallValues
    \/ CallSet
    \/ CallDelete
    \/ CallMutate
    \/ CallMutateRegions

Spec == Init /\ [][Next]_vars

(***************************************************************************)
(* Selections on their own.  The caller builds an array of some length,    *)
(* whose item at index i is i, and matches one index or one slice          *)
(* expression against it; probe holds the length, the expression and what  *)
(* the evaluator made of it.                                               *)
(***************************************************************************)
MaxLen == 3
MaxIndex == 4
MaxStep == 2

ArrayOfLen(len) == TArr([i \in 1..len |-> TS(i - 1)])

Indices == (-MaxIndex)..MaxIndex
Bounds == {NotSpecified} \cup {Specified(i) : i \in Indices}
Steps == {NotSpecified} \cup {Specified(i) : i \in (-MaxStep)..MaxStep}

SelectionNodes ==
    {IndexNode(i) : i \in Indices}
    \cup {SliceNode(start, end, step) : start \in Bounds, end \in Bounds, step \in Steps}

InitSel ==
    \E len \in 0..MaxLen, node \in SelectionNodes :
        /\ heap = Load(<<>>, ArrayOfLen(len)).heap
        /\ rootD = Load(<<>>, ArrayOfLen(len)).val
        /\ doc0 = ArrayOfLen(len)
        /\ latents = <<>>
        /\ sets = <<>>
        /\ last = NoCall
        /\ probe = [len |-> len, node |-> node, done |-> FALSE, out |-> "", ref |-> NilRef,
                    vals |-> <<>>]

\* the evaluation of the probe's expression against the array
Selected(r) ==
    [probe EXCEPT !.done = TRUE, !.out = Outcome(r.w), !.ref = r.ref,
                  !.vals = IF Faulted(r.w) THEN <<>> ELSE DerefSeq(r.w.heap, Values(r.w, r.ref))]

\* Match("[i]", array)
SelectIndex ==
    /\ ~probe.done
    /\ probe.node.n = "index"
    /\ probe' = Selected(Match(heap, latents, rootD, probe.node))
    /\ UNCHANGED <<heap, latents, rootD, doc0, sets, last>>

\* Match("[start:end:step]", array)
SelectSlice ==
    /\ ~probe.done
    /\ probe.node.n = "slice"
    /\ probe' = Selected(Match(heap, latents, rootD, probe.node))
    /\ UNCHANGED <<heap, latents, rootD, doc0, sets, last>>

NextSel == SelectIndex \/ SelectSlice

SpecSel == InitSel /\ [][NextSel]_vars

(***************************************************************************)
(* Regions on their own.  The caller draws two regions, two checked sets   *)
(* of regions, a list of regions in any order, a region to insert at with  *)
(* a list of regions in any order, or an array of some length              *)
(* with a checked set inside it and the lists a regions mutator returns,   *)
(* and calls one operation on them; probe holds the input and the result.  *)
(***************************************************************************)
MaxEnd == 3
MaxRegions == 2
MaxJumble == 3

\* the regions r(start, end) with end >= start
RegionSet == UNION {{Region(start, end) : end \in start..MaxEnd} : start \in 0..MaxEnd}

RegionsUpTo(count) == UNION {[1..n -> RegionSet] : n \in 0..count}

\* the sets that pass Regions.Check: sorted and not overlapping
CheckedSets == {rs \in RegionsUpTo(MaxRegions) : RegionsCheck(rs)}

Jumbles == RegionsUpTo(MaxJumble)

\* the lists a regions mutator returns: one list too few, or one per region
ReplacementItems == {<<>>, <<Scalar(NewValue)>>, <<Scalar(NewValue), Scalar(NewValue + 1)>>}
Replacements(count) ==
    UNION {[1..n -> ReplacementItems] : n \in {c \in {count - 1, count} : c >= 0}}

RegInput(kind, a, b, rs, other, len, lists) ==
    [kind |-> kind, a |-> a, b |-> b, rs |-> rs, other |-> other, len |-> len,
     lists |-> lists, done |-> FALSE, op |-> "", out |-> "", flag |-> FALSE,
     region |-> a, regions |-> <<>>, reverse |-> <<>>, items |-> <<>>, vals |-> <<>>]

RegInputs ==
    {RegInput("pair", a, b, <<>>, <<>>, 0, <<>>) :
        a \in RegionSet, b \in RegionSet}
    \cup {RegInput("sets", Region(0, 0), Region(0, 0), rs, other, 0, <<>>) :
        rs \in CheckedSets, other \in CheckedSets}
    \cup {RegInput("jumble", Region(0, 0), Region(0, 0), rs, <<>>, 0, <<>>) : rs \in Jumbles}
    \cup {RegInput("insert", a, Region(0, 0), rs, <<>>, 0, <<>>) :
        a \in RegionSet, rs \in RegionsUpTo(MaxRegions)}
    \cup UNION {UNION {{RegInput("array", Region(0, 0), Region(0, 0), rs, <<>>, len, lists) :
                           lists \in Replacements(Len(rs))} :
                    rs \in {c \in CheckedSets : \A k \in DOMAIN c : c[k].End <= len}} :
               len \in 0..MaxLen}

InitReg ==
    \E input \in RegInputs :
        /\ heap = Load(<<>>, ArrayOfLen(input.len)).heap
        /\ rootD = Load(<<>>, ArrayOfLen(input.len)).val
        /\ doc0 = ArrayOfLen(input.len)
        /\ latents = <<>>
        /\ sets = <<>>
        /\ last = NoCall
        /\ probe = input

\* a.Overlap(b)
RegionOverlap ==
    /\ ~probe.done
    /\ probe.kind = "pair"
    /\ probe' = [probe EXCEPT !.done = TRUE, !.op = "Overlap", !.flag = Overlap(probe.a, probe.b)]
    /\ UNCHANGED <<heap, latents, rootD, doc0, sets, last>>

\* a.Cut(b)
RegionCut ==
    /\ ~probe.done
    /\ probe.kind = "pair"
    /\ probe' = [probe EXCEPT !.done = TRUE, !.op = "Cut", !.region = Cut(probe.a, probe.b)]
    /\ UNCHANGED <<heap, latents, rootD, doc0, sets, last>>

\* assertUnion: left.Union(right) and right.Union(left)
UnionBothWays ==
    /\ ~probe.done
    /\ probe.kind = "sets"
    /\ probe' = [probe EXCEPT !.done = TRUE, !.op = "Union",
                               !.regions = RegionsUnion(probe.rs, probe.other),
                               !.reverse = RegionsUnion(probe.other, probe.rs)]
    /\ UNCHANGED <<heap, latents, rootD, doc0, sets, last>>

\* rs.Clean()
CleanJumble ==
    /\ ~probe.done
    /\ probe.kind = "jumble"
    /\ probe' = [probe EXCEPT !.done = TRUE, !.op = "Clean", !.regions = Clean(probe.rs)]
    /\ UNCHANGED <<heap, latents, rootD, doc0, sets, last>>

\* rs.Simplify()
SimplifyJumble ==
    /\ ~probe.done
    /\ probe.kind = "jumble"
    /\ probe' = [probe EXCEPT !.done = TRUE, !.op = "Simplify",
                               !.out = IF Simplify(probe.rs).panic THEN "panic" ELSE "ok",
                               !.regions = Simplify(probe.rs).regions]
    /\ UNCHANGED <<heap, latents, rootD, doc0, sets, last>>

\* rs.Intersect(other)
IntersectSets ==
    /\ ~probe.done
    /\ probe.kind = "sets"
    /\ probe' = [probe EXCEPT !.done = TRUE, !.op = "Intersect",
                               !.regions = RegionsIntersect(probe.rs, probe.other)]
    /\ UNCHANGED <<heap, latents, rootD, doc0, sets, last>>

\* rs.InsertAt(a)
InsertAtRegion ==
    /\ ~probe.done
    /\ probe.kind = "insert"
    /\ probe' = [probe EXCEPT !.done = TRUE, !.op = "InsertAt",
                               !.regions = InsertAt(probe.rs, probe.a)]
    /\ UNCHANGED <<heap, latents, rootD, doc0, sets, last>>

\* the array the caller built, as the Go slice of its items
SourceItems == heap[rootD.v].a

\* rs.MergeItems(source, rs.ExtractItems(source))
ExtractAndMerge ==
    /\ ~probe.done
    /\ probe.kind = "array"
    /\ LET merged(m) ==
            [probe EXCEPT !.done = TRUE, !.op = "RoundTrip",
                          !.out = IF m.panic THEN "panic" ELSE "ok",
                          !.items = DerefSeq(heap, m.merged), !.regions = m.regions]
       IN probe' = merged(MergeItems(probe.rs, SourceItems,
                                     ExtractItems(probe.rs, SourceItems)))
    /\ UNCHANGED <<heap, latents, rootD, doc0, sets, last>>

\* what an ArrayRef operation left: the world, and in probe the array written
\* back, the selection of the ref and what Values on the ref returns
ArrayRefDone(op, r) ==
    /\ heap' = r.w.heap
    /\ rootD' = r.w.root
    /\ probe' = [probe EXCEPT !.done = TRUE, !.op = op, !.out = Outcome(r.w),
                               !.regions = r.selection,
                               !.items = Deref(r.w.heap, r.w.root).a,
                               !.vals = DerefSeq(r.w.heap,
                                                 Values(r.w, ArrayRef(RootVar, r.selection)))]
    /\ UNCHANGED <<latents, doc0, sets, last>>

\* NewArrayRef(root, rs).Delete()
DeleteSelected ==
    /\ ~probe.done
    /\ probe.kind = "array"
    /\ ArrayRefDone("Delete", ArrayRefDelete(World(heap, rootD, latents),
                                             NewArrayRef(World(heap, rootD, latents),
                                                         RootVar, probe.rs)))

\* NewArrayRef(root, rs).MutateRegions(mutator)
MutateSelectedRegions ==
    /\ ~probe.done
    /\ probe.kind = "array"
    /\ ArrayRefDone("MutateRegions",
                    ArrayRefMutateRegions(World(heap, rootD, latents),
                                          NewArrayRef(World(heap, rootD, latents),
                                                      RootVar, probe.rs),
                                          ReplaceMutator(probe.lists)))

NextReg ==
    \/ RegionOverlap
    \/ RegionCut
    \/ UnionBothWays
    \/ CleanJumble
    \/ SimplifyJumble
    \/ IntersectSets
    \/ InsertAtRegion
    \/ ExtractAndMerge
    \/ DeleteSelected
    \/ MutateSelectedRegions

SpecReg == InitReg /\ [][NextReg]_vars

(***************************************************************************)
(* Filters on their own.  The caller builds an array or a map of a few     *)
(* elements and matches one filter expression against it; probe holds the  *)
(* elements, the filter and the positions of the elements it selected.     *)
(***************************************************************************)
MaxElements == 2

\* the elements: maps with both, one or none of the fields a and b, and a
\* scalar
FilterElements ==
    {TMap({KV("a", TS(1)), KV("b", TS(2))}), TMap({KV("a", TS(2)), KV("b", TS(2))}),
     TMap({KV("a", TS(1))}), TMap({}), TS(1)}

\* the operands: a field, a literal, the element itself, all its children,
\* two fields at once, and two fields at once below a path (c.d['a','b'])
FilterOperands ==
    {FieldNode("a"), FieldNode("b"), IntNode(Scalar(1)), SelfNode, WildcardNode,
     UnionNode(<<FieldNode("a"), FieldNode("b")>>),
     PathNode(<<FieldNode("c"), FieldNode("d"),
                UnionNode(<<FieldNode("a"), FieldNode("b")>>)>>)}

FilterNodes ==
    {FilterNode(lhs, operator, rhs) :
        lhs \in FilterOperands, operator \in ComparisonOperators, rhs \in FilterOperands}
    \cup {FilterNode(lhs, "Exists", NoNode) : lhs \in FilterOperands}

ElementKeys == <<"a", "b", "c", "d", "e", "f", "g">>

\* the document that holds the elements: an array of them, or a map of them
\* under the first keys
ElementsDoc(container, elements) ==
    IF container = "arr" THEN TArr(elements)
    ELSE TMap({KV(ElementKeys[i], elements[i]) : i \in DOMAIN elements})

InitFilter ==
    \E container \in {"arr", "map"}, node \in FilterNodes,
       elements \in UNION {[1..n -> FilterElements] : n \in 0..MaxElements} :
        /\ heap = Load(<<>>, ElementsDoc(container, elements)).heap
        /\ rootD = Load(<<>>, ElementsDoc(container, elements)).val
        /\ doc0 = ElementsDoc(container, elements)
        /\ latents = <<>>
        /\ sets = <<>>
        /\ last = NoCall
        /\ probe = [container |-> container, elements |-> elements, node |-> node,
                    done |-> FALSE, out |-> "", ref |-> NilRef, matched |-> {}]

\* the positions (from 1) of the elements a ref on the document selects
MatchedPositions(ref) ==
    IF ref.kind = "array" THEN {i + 1 : i \in SeqToSet(ToIndicies(ref.selection))}
    ELSE IF ref.kind = "map"
    THEN {i \in DOMAIN ElementKeys : ElementKeys[i] \in SeqToSet(ref.keys)}
    ELSE {}

\* what the evaluation of the probe's filter left
Filtered(r) ==
    /\ probe' = [probe EXCEPT !.done = TRUE, !.out = Outcome(r.w), !.ref = r.ref,
                               !.matched = MatchedPositions(r.ref)]
    /\ latents' = r.w.lat
    /\ UNCHANGED <<heap, rootD, doc0, sets, last>>

\* Match("[?(lhs op rhs)]", array)
FilterArray ==
    /\ ~probe.done
    /\ probe.container = "arr"
    /\ Filtered(Match(heap, latents, rootD, probe.node))

\* Match("[?(lhs op rhs)]", map)
FilterMap ==
    /\ ~probe.done
    /\ probe.container = "map"
    /\ Filtered(Match(heap, latents, rootD, probe.node))

NextFilter == FilterArray \/ FilterMap

SpecFilter == InitFilter /\ [][NextFilter]_vars

(***************************************************************************)
(* The scanner and the parser (scanner.go, parser.go).  A source text is   *)
(* the list of its characters.  The texts the caller parses are made of a  *)
(* letter, two digits, '-', '.', '[' and ']': they hold no whitespace,     *)
(* quote, comma, colon, '?' or comparison operator, and the branches of    *)
(* the scanner and the parser for those are left out.  The scanner's       *)
(* position is the reader's offset; the Pos of a ParseError is left out.   *)
(***************************************************************************)
eof == ""

Letters == {"a"}
DigitChars == {"0", "1"}
SrcChars == Letters \cup DigitChars \cup {"-", ".", "[", "]"}

\* the character Scanner.read returns at an offset of the reader
CharAt(src, off) == IF off < Len(src) THEN src[off + 1] ELSE eof

isLetter(ch) == ch \in Letters
isDigit(ch) == ch \in DigitChars
isStartNumberCharacter(ch) == isDigit(ch) \/ ch = "-"
isIdentifierCharacter(ch) == isLetter(ch) \/ isDigit(ch) \/ ch = "_" \/ ch = "$"
isIdentifierStartCharacter(ch) == isLetter(ch) \/ ch = "_" \/ ch = "$"

\* what Scan returns: the token, its text, and the reader's offset after it;
\* panic when the scanner indexed an empty Peek
Token(tok, lit, off) == [tok |-> tok, lit |-> lit, off |-> off, panic |-> FALSE]
ScanPanic(off) == [tok |-> "Illegal", lit |-> <<>>, off |-> off, panic |-> TRUE]

RECURSIVE IdentifierEnd(_, _)
\* the offset of the first character that is not an identifier character
IdentifierEnd(src, off) ==
    IF isIdentifierCharacter(CharAt(src, off)) THEN IdentifierEnd(src, off + 1) ELSE off

\* Scanner.scanIdentifier
scanIdentifier(src, off) ==
    Token("Identifier", SubSeq(src, off + 1, IdentifierEnd(src, off + 1)),
          IdentifierEnd(src, off + 1))

RECURSIVE NumberLoop(_, _, _, _, _)
\* the loop of Scanner.scanNumber.  After the Peek that looks for a range
\* operator UnreadRune fails, so the '.' that was read stays consumed; a Peek
\* at the end of the text returns nothing and indexing it panics.
NumberLoop(src, off, buf, decimalPointSeen, lastCharacterIsDigit) ==
    LET ch == CharAt(src, off)
        done(end) ==
            IF ~lastCharacterIsDigit THEN Token("Illegal", buf, end)
            ELSE IF decimalPointSeen THEN Token("Float", buf, end)
            ELSE Token("Integer", buf, end)
    IN IF ch = eof THEN done(off)
       ELSE IF ch = "." /\ decimalPointSeen THEN done(off)
       ELSE IF ~isDigit(ch) /\ ch # "." THEN done(off)
       ELSE IF ch = "."
       THEN IF CharAt(src, off + 1) = eof THEN ScanPanic(off + 1)
            ELSE IF CharAt(src, off + 1) = "." THEN done(off + 1)
            ELSE NumberLoop(src, off + 1, Append(buf, ch), TRUE, FALSE)
       ELSE NumberLoop(src, off + 1, Append(buf, ch), decimalPointSeen, TRUE)

\* Scanner.scanNumber
scanNumber(src, off) ==
    IF CharAt(src, off) = "-" THEN NumberLoop(src, off + 1, <<"-">>, FALSE, FALSE)
    ELSE NumberLoop(src, off, <<>>, FALSE, FALSE)

\* Scanner.scanOperator, after Scan has read ch
scanOperator(src, off) ==
    LET ch == CharAt(src, off)
        next == CharAt(src, off + 1)
    IN IF ch = "." /\ next = "." THEN Token("DotDot", <<".", ".">>, off + 2)
       ELSE IF ch = "[" THEN Token("BracketLeft", <<"[">>, off + 1)
       ELSE IF ch = "]" THEN Token("BracketRight", <<"]">>, off + 1)
       ELSE IF ch = "." THEN Token("Dot", <<".">>, off + 1)
       ELSE Token("Illegal", <<ch>>, off + 1)

\* Scanner.Scan
Scan(src, off) ==
    IF isStartNumberCharacter(CharAt(src, off)) THEN scanNumber(src, off)
    ELSE IF isIdentifierStartCharacter(CharAt(src, off)) THEN scanIdentifier(src, off)
    ELSE IF CharAt(src, off) = eof THEN Token("EOF", <<>>, off)
    ELSE scanOperator(src, off)

\* the Parser: the reader's offset, and the buffer of one token with its n
NewParser == [off |-> 0, buf |-> Token("EOF", <<>>, 0), n |-> 0]

\* Parser.scan: the parser after it, and the token
scan(src, p) ==
    IF p.n # 0 THEN [p |-> [p EXCEPT !.n = 0], t |-> p.buf]
    ELSE LET scanned(t) == [p |-> [off |-> t.off, buf |-> t, n |-> 0], t |-> t]
         IN scanned(Scan(src, p.off))

\* Parser.unscan
unscan(p) == [p EXCEPT !.n = 1]

\* the "_, _, pos := p.scan(); p.unscan()" that opens a parse function
peeked(src, p) == unscan(scan(src, p).p)

\* the errors: nil, a *ParseError with its message, or the scanner's panic
NoError == [kind |-> "nil", lit |-> <<>>]
ParseError(kind, lit) == [kind |-> kind, lit |-> lit]
IllegalToken(lit) == ParseError("Syntax error. (Illegal token %q)", lit)
NakedInteger(lit) ==
    ParseError("Wrap numbers in brackets when used in dotted path expressions ([%s] or [%q] depending on what you mean)",
               lit)
ScannerPanic == ParseError("panic: index out of range", <<>>)

\* the message of an error: the pieces of the format with its operands put in,
\* each piece a list of texts
ErrorText(err) ==
    IF err.kind = NakedInteger(<<>>).kind
    THEN << <<"Wrap numbers in brackets when used in dotted path expressions (">>,
            <<"[">> \o err.lit \o <<"]">>, <<" or ">>,
            <<"[", "\"">> \o err.lit \o <<"\"", "]">>, <<" depending on what you mean)">> >>
    ELSE IF err.kind = IllegalToken(<<>>).kind
    THEN << <<"Syntax error. (Illegal token ">>, <<"\"">> \o err.lit \o <<"\"">>, <<")">> >>
    ELSE << <<err.kind>> >>

\* what a parse function returns
Parsed(p, node, any, err) == [p |-> p, node |-> node, any |-> any, err |-> err]
Failed(p, err) == Parsed(p, NoNode, FALSE, err)

RECURSIVE AtoiDigits(_, _)
AtoiDigits(lit, value) ==
    IF lit = <<>> THEN value
    ELSE AtoiDigits(Tail(lit), value * 10 + (IF Head(lit) = "1" THEN 1 ELSE 0))

\* strconv.Atoi on the text of an Integer token
Atoi(lit) == IF Head(lit) = "-" THEN -AtoiDigits(Tail(lit), 0) ELSE AtoiDigits(lit, 0)

\* a floatNode, holding the text that strconv.ParseFloat is given
FloatNode(text) == [n |-> "float", text |-> text]

\* an indexNode that left a bracketed expression
SealedIndexNode(value) == [n |-> "index", value |-> value, sealed |-> TRUE]

\* seal
seal(in) == IF in.n = "index" THEN SealedIndexNode(in.value) ELSE in

\* unwrapIfSingleNodeList
unwrapIfSingleNodeList(in) ==
    IF in.n \in {"path", "union"} /\ Len(in.nodes) = 1 THEN in.nodes[1] ELSE in

\* Parser.parseAtom
parseAtom(src, p) ==
    LET atom(s) ==
            IF s.t.panic THEN Failed(s.p, ScannerPanic)
            ELSE IF s.t.tok = "Identifier" THEN Parsed(s.p, FieldNode(s.t.lit), TRUE, NoError)
            ELSE IF s.t.tok = "Integer" THEN Parsed(s.p, IndexNode(Atoi(s.t.lit)), TRUE, NoError)
            ELSE IF s.t.tok = "Float" THEN Parsed(s.p, FloatNode(s.t.lit), TRUE, NoError)
            ELSE Parsed(unscan(s.p), NoNode, FALSE, NoError)
    IN atom(scan(src, p))

RECURSIVE parsePathLoop(_, _, _, _)
RECURSIVE parseExpressionLoop(_, _, _)
\* Parser.parseExpression
parseExpression(src, p) ==
    LET sealed(r) == IF r.err # NoError THEN r ELSE [r EXCEPT !.node = seal(@)]
    IN sealed(parseExpressionLoop(src, peeked(src, p), <<>>))

\* Parser.parsePath
parsePath(src, p) == parsePathLoop(src, peeked(src, p), <<>>, FALSE)

\* the loop of parseExpression: a path, then the token after it
parseExpressionLoop(src, p, nodes) ==
    LET after(r, s) ==
            IF s.t.panic THEN Failed(s.p, ScannerPanic)
            ELSE IF s.t.tok = "Illegal" THEN Failed(s.p, IllegalToken(s.t.lit))
            ELSE Parsed(unscan(s.p),
                        unwrapIfSingleNodeList(
                            UnionNode(IF r.any THEN Append(nodes, r.node) ELSE nodes)),
                        TRUE, NoError)
        path(r) == IF r.err # NoError THEN r ELSE after(r, scan(src, r.p))
    IN path(parsePath(src, p))

\* the loop of parsePath
parsePathLoop(src, p, nodes, noNakedIntegers) ==
    LET finished(q) ==
            IF nodes = <<>> THEN Parsed(unscan(q), NoNode, FALSE, NoError)
            ELSE Parsed(q, unwrapIfSingleNodeList(PathNode(nodes)), TRUE, NoError)
        atom(r) ==
            IF r.err # NoError THEN r
            ELSE IF r.any THEN parsePathLoop(src, r.p, Append(nodes, r.node), noNakedIntegers)
            ELSE finished(r.p)
        closing(r, s) ==
            IF s.t.panic THEN Failed(s.p, ScannerPanic)
            ELSE IF s.t.tok # "BracketRight" THEN Failed(s.p, ParseError("']' must appear", <<>>))
            ELSE parsePathLoop(src, s.p, Append(nodes, r.node), noNakedIntegers)
        innards(r) ==
            IF r.err # NoError THEN r
            ELSE closing(r, scan(src, peeked(src, r.p)))
        marker(s) ==
            IF s.t.panic THEN Failed(s.p, ScannerPanic)
            ELSE innards(parseExpression(src, unscan(s.p)))
        recursive(s) ==
            IF s.t.panic THEN Failed(s.p, ScannerPanic)
            ELSE IF s.t.tok = "Identifier"
            THEN parsePathLoop(src, s.p,
                               nodes \o <<RecursiveNode, ExistingFieldNode(s.t.lit)>>,
                               noNakedIntegers)
            ELSE parsePathLoop(src, unscan(s.p), Append(nodes, RecursiveNode),
                               noNakedIntegers)
        separator(s) ==
            IF s.t.panic THEN Failed(s.p, ScannerPanic)
            ELSE IF s.t.tok = "BracketLeft" THEN marker(scan(src, s.p))
            ELSE IF s.t.tok = "Dot" THEN parsePathLoop(src, s.p, nodes, TRUE)
            ELSE IF s.t.tok = "DotDot" THEN recursive(scan(src, s.p))
            ELSE IF s.t.tok = "Illegal" THEN Failed(s.p, IllegalToken(s.t.lit))
            ELSE IF s.t.tok = "Integer" /\ noNakedIntegers
            THEN Failed(s.p, NakedInteger(s.t.lit))
            ELSE atom(parseAtom(src, unscan(s.p)))
    IN separator(scan(src, p))

\* Parser.Parse: the Expression's root, or the error
Parse(src) ==
    LET whole(r, s) ==
            IF s.t.panic THEN Failed(s.p, ScannerPanic)
            ELSE IF s.t.tok # "EOF"
            THEN Failed(s.p, ParseError("Syntax error, unable to parse entire expression", <<>>))
            ELSE IF ~r.any THEN Parsed(s.p, SelfNode, TRUE, NoError)
            ELSE r
        path(r) == IF r.err # NoError THEN r ELSE whole(r, scan(src, r.p))
    IN path(parsePath(src, NewParser))

(***************************************************************************)
(* Parsing on its own.  The caller parses one text; probe holds the text   *)
(* and what Parse returned.                                                *)
(***************************************************************************)
MaxSrc == 5

Sources == UNION {[1..n -> SrcChars] : n \in 0..MaxSrc}

InitParse ==
    \E src \in Sources :
        /\ heap = <<>>
        /\ rootD = Nil
        /\ doc0 = TNil
        /\ latents = <<>>
        /\ sets = <<>>
        /\ last = NoCall
        /\ probe = [src |-> src, done |-> FALSE, out |-> "", err |-> NoError, root |-> NoNode]

\* what Parse left
ParseDone(r) ==
    [probe EXCEPT !.done = TRUE,
                  !.out = IF r.err = ScannerPanic THEN "panic"
                          ELSE IF r.err # NoError THEN "error" ELSE "ok",
                  !.err = r.err,
                  !.root = IF r.err # NoError THEN NoNode ELSE r.node]

\* Parse(src) for a text with a '.' in it
ParseDotted ==
    /\ ~probe.done
    /\ \E i \in DOMAIN probe.src : probe.src[i] = "."
    /\ probe' = ParseDone(Parse(probe.src))
    /\ UNCHANGED <<heap, latents, rootD, doc0, sets, last>>

\* Parse(src) for a text without
ParseUndotted ==
    /\ ~probe.done
    /\ \A i \in DOMAIN probe.src : probe.src[i] # "."
    /\ probe' = ParseDone(Parse(probe.src))
    /\ UNCHANGED <<heap, latents, rootD, doc0, sets, last>>

NextParse == ParseDotted \/ ParseUndotted

SpecParse == InitParse /\ [][NextParse]_vars

(***************************************************************************)
(* Refs on their own.  The caller holds the refs an evaluation of a        *)
(* document {a: {b: ..}, c: [..], e: [..]} makes: Array, Map, Var and      *)
(* Literal refs, two LatentMapRefs and some unions of them; it calls Union *)
(* on one of them with a list of the others, or Merge with one of them.    *)
(* probe holds the receiver, the arguments and what the call returned.     *)
(***************************************************************************)
MaxArgs == 2

VarA == VarRef(<<KeyStep("a")>>, 2)
VarC == VarRef(<<KeyStep("c")>>, 2)
VarE == VarRef(<<KeyStep("e")>>, 2)

\* the two LatentMapRef objects: missing keys of the root map and of the map a
RefLatents ==
    <<[root |-> MapRef(RootVar, <<"d">>), keyPath |-> <<"b">>],
      [root |-> MapRef(VarA, <<"c">>), keyPath |-> <<>>]>>

AtomRefs ==
    {ArrayRef(VarC, <<Region(0, 1)>>), ArrayRef(VarC, <<Region(2, 3)>>),
     ArrayRef(VarE, <<Region(0, 1)>>),
     MapRef(RootVar, <<"c">>), MapRef(RootVar, <<"a">>), MapRef(VarA, <<"b">>),
     VarRefRef(RootVar), VarRefRef(VarA),
     LiteralRef(Scalar(1)), LiteralRef(Scalar(2)),
     LatentRef(1), LatentRef(2)}

\* unions as NewUnionRef returns them
SampleUnions ==
    {NewEmptyRef,
     NewUnionRef(<<ArrayRef(VarC, <<Region(0, 1)>>), MapRef(RootVar, <<"c">>)>>),
     NewUnionRef(<<VarRefRef(RootVar), MapRef(VarA, <<"b">>)>>),
     NewUnionRef(<<LiteralRef(Scalar(1)), LatentRef(1)>>),
     NewUnionRef(<<MapRef(RootVar, <<"a">>), LatentRef(2), ArrayRef(VarE, <<Region(0, 1)>>)>>)}

RefPool == AtomRefs \cup SampleUnions

RefInputs ==
    {[kind |-> "union", r |-> r, args |-> args, done |-> FALSE, out |-> NilRef, ok |-> FALSE] :
        r \in RefPool, args \in UNION {[1..n -> RefPool] : n \in 0..MaxArgs}}
    \cup {[kind |-> "merge", r |-> r, args |-> <<ref>>, done |-> FALSE, out |-> NilRef,
           ok |-> FALSE] : r \in RefPool, ref \in RefPool}

InitRef ==
    \E input \in RefInputs :
        /\ heap = <<>>
        /\ rootD = Nil
        /\ doc0 = TNil
        /\ latents = RefLatents
        /\ sets = <<>>
        /\ last = NoCall
        /\ probe = input

\* r.Union(args...)
UnionRefs ==
    /\ ~probe.done
    /\ probe.kind = "union"
    /\ probe' = [probe EXCEPT !.done = TRUE, !.out = RefUnion(probe.r, probe.args)]
    /\ UNCHANGED <<heap, latents, rootD, doc0, sets, last>>

\* r.Merge(ref): the ref and the flag it returns
MergeRefs ==
    /\ ~probe.done
    /\ probe.kind = "merge"
    /\ LET merged(m) ==
               probe' = [probe EXCEPT !.done = TRUE, !.ok = m.ok,
                                      !.out = IF m.panic THEN PanicRef ELSE m.ref]
       IN merged(RefMerge(probe.r, probe.args[1]))
    /\ UNCHANGED <<heap, latents, rootD, doc0, sets, last>>

NextRef == UnionRefs \/ MergeRefs

SpecRef == InitRef /\ [][NextRef]_vars

(***************************************************************************)
(* A path evaluated node by node and a mutation applied member by member.  *)
(* The caller matches a path against a document and calls Set, Delete or   *)
(* Mutate on the ref it gets.  processPath hands each node the ref the     *)
(* node before it returned, and UnionRef.Set, Delete and Mutate call the   *)
(* members of the union in the order of r.refs: probe holds the position   *)
(* of both loops, the ref evaluated so far and the members visited.        *)
(***************************************************************************)
DocDeep ==
    TMap({KV("a", TMap({KV("b", TMap({KV("f", TS(1))})), KV("f", TS(2))})),
          KV("c", TArr(<<TArr(<<TS(1), TS(2)>>), TArr(<<TS(3)>>)>>)),
          KV("f", TMap({KV("f", TS(4)), KV("b", TS(5))}))})

WalkDocs == {DocEmpty, DocHalf, DocDeep}

\* the paths the caller matches, as the nodes of the path
WalkPaths ==
    {<<FieldNode("c"), FieldNode("d"), FieldNode("e")>>,
     <<FieldNode("c"), FieldNode("d"), UnionNode(<<FieldNode("a"), FieldNode("b")>>)>>,
     <<UnionNode(<<Path2(FieldNode("c"), FieldNode("d")), FieldNode("c"),
                   PathNode(<<FieldNode("a"), FieldNode("b"), FieldNode("f")>>)>>)>>,
     <<UnionNode(<<Path2(FieldNode("e"), FieldNode("g")), Path2(FieldNode("a"), FieldNode("e")),
                   Path2(FieldNode("a"), FieldNode("b"))>>)>>,
     <<UnionNode(<<Path2(FieldNode("c"), FieldNode("e")), Path2(FieldNode("c"), IndexNode(0))>>)>>,
     <<UnionNode(<<Path2(FieldNode("d"), FieldNode("e")), FieldNode("d"), FieldNode("a")>>)>>,
     <<RecursiveNode, ExistingFieldNode("f")>>,
     <<RecursiveNode, ExistingFieldNode("b")>>,
     <<RecursiveNode, IndexNode(0)>>,
     <<RecursiveNode>>,
     <<FieldNode("c"), UnionNode(<<Path2(IndexNode(0), IndexNode(1)), IndexNode(0),
                                   IndexNode(1)>>)>>,
     <<UnionNode(<<FieldNode("c"), Path2(FieldNode("c"), WildcardNode),
                   PathNode(<<FieldNode("c"), WildcardNode, WildcardNode>>)>>)>>,
     <<FieldNode("a"), UnionNode(<<SelfNode, WildcardNode, StringNode(Scalar(7))>>)>>}

WalkOps ==
    {[name |-> "Set", mutator |-> ConstMutator(Scalar(NewValue))],
     [name |-> "Delete", mutator |-> FailMutator],
     [name |-> "Mutate", mutator |-> ConstMutator(Scalar(NewValue))],
     [name |-> "Mutate", mutator |-> FailMutator]}

InitWalk ==
    \E doc \in WalkDocs, nodes \in WalkPaths, op \in WalkOps :
        /\ heap = Load(<<>>, doc).heap
        /\ rootD = Load(<<>>, doc).val
        /\ doc0 = doc
        /\ latents = <<>>
        /\ sets = <<>>
        /\ last = NoCall
        /\ probe = [nodes |-> nodes, op |-> op, phase |-> "eval", pos |-> 1,
                    input |-> NilRef, ref |-> VarRefRef(RootVar), visited |-> <<>>,
                    out |-> "ok"]

\* one turn of the loop of processPath: the next node is evaluated against
\* the ref the node before it returned
EvalNode ==
    /\ probe.phase = "eval"
    /\ probe.pos <= Len(probe.nodes)
    /\ LET evaluated(r) ==
               /\ probe' = [probe EXCEPT !.phase = IF Faulted(r.w) THEN "done" ELSE "eval",
                                          !.pos = @ + 1,
                                          !.input = probe.ref,
                                          !.ref = r.ref,
                                          !.out = Outcome(r.w)]
               /\ heap' = r.w.heap
               /\ rootD' = r.w.root
               /\ latents' = r.w.lat
       IN evaluated(process(World(heap, rootD, latents), probe.ref, probe.nodes[probe.pos]))
    /\ UNCHANGED <<doc0, sets, last>>

\* the caller calls the operation on the ref Match returned
CallOp ==
    /\ probe.phase = "eval"
    /\ probe.pos > Len(probe.nodes)
    /\ probe' = [probe EXCEPT !.phase = "apply", !.pos = 1]
    /\ UNCHANGED <<heap, latents, rootD, doc0, sets, last>>

\* the members the operation calls, in the order it calls them: a ref that is
\* not a union is called itself
Members == individualRefs(probe.ref)

\* what a call on one member left
Applied(w) ==
    /\ probe' = [probe EXCEPT !.phase = IF Faulted(w) THEN "done" ELSE "apply",
                               !.pos = @ + 1,
                               !.visited = Append(@, Members[probe.pos]),
                               !.out = Outcome(w)]
    /\ heap' = w.heap
    /\ rootD' = w.root
    /\ latents' = w.lat
    /\ UNCHANGED <<doc0, sets, last>>

Applying(name) ==
    /\ probe.phase = "apply"
    /\ probe.pos <= Len(Members)
    /\ probe.op.name = name

\* one turn of the loop of UnionRef.Set
SetMember ==
    /\ Applying("Set")
    /\ Applied(RefSet(World(heap, rootD, latents), Members[probe.pos], probe.op.mutator.value))

\* one turn of the loop of UnionRef.Delete
DeleteMember ==
    /\ Applying("Delete")
    /\ Applied(RefDelete(World(heap, rootD, latents), Members[probe.pos]).w)

\* one turn of the loop of UnionRef.Mutate
MutateMember ==
    /\ Applying("Mutate")
    /\ Applied(RefMutate(World(heap, rootD, latents), Members[probe.pos], probe.op.mutator))

\* the loop is over and the operation returns
ReturnOp ==
    /\ probe.phase = "apply"
    /\ probe.pos > Len(Members)
    /\ probe' = [probe EXCEPT !.phase = "done"]
    /\ UNCHANGED <<heap, latents, rootD, doc0, sets, last>>

NextWalk == EvalNode \/ CallOp \/ SetMember \/ DeleteMember \/ MutateMember \/ ReturnOp

SpecWalk == InitWalk /\ [][NextWalk]_vars

(***************************************************************************)
(* Properties                                                              *)
(***************************************************************************)
MutatingOps == {"Set", "Delete", "Mutate", "MutateRegions"}

\* the document a MatchSet holds: the value of its root variable
Held(h, e) == Deref(h, e.root)

\* C1: a MatchSet accepts at most one mutation.  A mutating call that
\* succeeds marks its MatchSet, and from then on the MatchSet stays marked,
\* the document it holds never changes, and every call of Set, Delete, Mutate
\* or MutateRegions on it returns the "already mutated" error.
C1_AtMostOneMutation ==
    [][/\ (last'.op \in MutatingOps /\ last'.out = "ok" => sets'[last'.i].mutated)
       /\ \A i \in DOMAIN sets :
            sets[i].mutated =>
                /\ sets'[i].mutated
                /\ Held(heap', sets'[i]) = Held(heap, sets[i])
                /\ (last'.i = i /\ last'.op \in MutatingOps =>
                        last'.out = "error" /\ last'.msg = AlreadyMutated)]_vars

\* a mutating call on a MatchSet that an earlier call has mutated
C1_Witness ==
    /\ last.op \in MutatingOps
    /\ last.out = "error"
    /\ last.msg = AlreadyMutated
    /\ sets[last.i].mutated
    /\ Held(heap, sets[last.i]) # doc0

\* C2 as claimed: after a successful mutation, Values fails with the "already
\* mutated" error, returned as an error value like the mutating operations do.
C2_ValuesReturnsError ==
    last.op = "Values" /\ sets[last.i].mutated =>
        last.out = "error" /\ last.msg = AlreadyMutated

\* C2 amended: after a successful mutation, Values returns nothing: it
\* panics, with a message of its own that says the values are not available.
C2_ValuesPanics ==
    last.op = "Values" /\ sets[last.i].mutated =>
        last.out = "panic" /\ last.msg = ValuesAfterMutation /\ last.vals = <<>>

\* Values called on a MatchSet that has been mutated
C2_Witness == last.op = "Values" /\ sets[last.i].mutated /\ last.out = "panic"

\* the world as it was when the caller had built D, with today's LatentMapRefs
WorldOfD == World(Load(<<>>, doc0).heap, Load(<<>>, doc0).val, latents)

\* what a MatchSet read when D was built, and what it reads now
ValuesThen(e) == DerefSeq(WorldOfD.heap, Values(WorldOfD, e.ref))
ValuesNow(e) == DerefSeq(heap, Values(WorldOf(heap, latents, e), e.ref))

\* C3: mutations are copy-on-write.  Whatever has been called, the value D
\* the caller passed to Match is the document it was, at every location; a
\* successful mutation returns the document its MatchSet now holds; and every
\* MatchSet whose root variable still holds D reads the values it read from D.
C3_CopyOnWrite ==
    /\ Deref(heap, rootD) = doc0
    /\ \A a \in DOMAIN WorldOfD.heap : heap[a] = WorldOfD.heap[a]
    /\ (last.op \in MutatingOps /\ last.out = "ok" =>
            last.ret = Held(heap, sets[last.i]))
    /\ \A j \in DOMAIN sets :
            sets[j].root = rootD /\ ~sets[j].mutated /\ sets[j].ref.kind # "nil" =>
                ValuesNow(sets[j]) = ValuesThen(sets[j])

\* a mutation has returned a changed document while another MatchSet of the
\* same D, not mutated, still reads values
C3_Witness ==
    /\ last.op \in MutatingOps
    /\ last.out = "ok"
    /\ last.ret # doc0
    /\ \E j \in DOMAIN sets :
            /\ j # last.i
            /\ ~sets[j].mutated
            /\ sets[j].root = rootD
            /\ sets[j].query = sets[last.i].query
            /\ sets[j].ref.kind # "nil"
            /\ ValuesNow(sets[j]) # <<>>

Missing == [t |-> "missing"]

RECURSIVE TreePaths(_)
\* the paths of the locations of a document, the root's included
TreePaths(tree) ==
    {<<>>} \cup
    (IF tree.t = "map"
     THEN UNION {{<<KeyStep(e.k)>> \o p : p \in TreePaths(e.v)} : e \in tree.m}
     ELSE IF tree.t = "arr"
     THEN UNION {{<<IndexStep(i - 1)>> \o p : p \in TreePaths(tree.a[i])} : i \in DOMAIN tree.a}
     ELSE {})

RECURSIVE TreeAt(_, _)
\* the value at a path of a document, or Missing
TreeAt(tree, path) ==
    IF path = <<>> THEN tree
    ELSE IF IsKeyStep(Head(path))
    THEN IF tree.t = "map" /\ \E e \in tree.m : e.k = Head(path).k
         THEN TreeAt((CHOOSE e \in tree.m : e.k = Head(path).k).v, Tail(path))
         ELSE Missing
    ELSE IF tree.t = "arr" /\ Head(path).i < Len(tree.a)
         THEN TreeAt(tree.a[Head(path).i + 1], Tail(path))
         ELSE Missing

TreeKeys(tree) == {e.k : e \in tree.m}

\* whether a path goes through the key f before its last step
Under(path, f) == \E k \in 1..(Len(path) - 1) : path[k] = KeyStep(f)

RECURSIVE SetOutermost(_, _, _)
\* the document with v at every key f that is not under another key f
SetOutermost(tree, f, v) ==
    IF tree.t = "map"
    THEN TMap({KV(e.k, IF e.k = f THEN v ELSE SetOutermost(e.v, f, v)) : e \in tree.m})
    ELSE IF tree.t = "arr"
    THEN TArr([i \in DOMAIN tree.a |-> SetOutermost(tree.a[i], f, v)])
    ELSE tree

\* the last call was a successful Set(NewValue) through the query `..f`
SetThroughRecursive(f) ==
    /\ last.op = "Set"
    /\ last.out = "ok"
    /\ sets[last.i].query = Path2(RecursiveNode, ExistingFieldNode(f))

RECURSIVE FieldPaths(_)
\* the key paths of a query of fields and unions of fields: one member of
\* each union
FieldPaths(node) ==
    CASE node.n = "field" -> {<<node.name>>}
      [] node.n = "union" -> UNION {FieldPaths(node.nodes[k]) : k \in DOMAIN node.nodes}
      [] node.n = "path" ->
            IF node.nodes = <<>> THEN {<<>>}
            ELSE {p \o q : p \in FieldPaths(Head(node.nodes)),
                           q \in FieldPaths(PathNode(Tail(node.nodes)))}
      [] OTHER -> {}

RECURSIVE IsFieldQuery(_)
IsFieldQuery(node) ==
    \/ node.n = "field"
    \/ node.n \in {"union", "path"} /\ \A k \in DOMAIN node.nodes : IsFieldQuery(node.nodes[k])

KeySteps(keys) == [k \in DOMAIN keys |-> KeyStep(keys[k])]
FieldQuery(keys) == PathNode([k \in DOMAIN keys |-> FieldNode(keys[k])])

IsPrefix(p, q) == Len(p) <= Len(q) /\ SubSeq(q, 1, Len(p)) = p

\* what Match(path, R).Values() reads in the document R a MatchSet holds
ReadBack(e, keys) ==
    LET read(r) == DerefSeq(r.w.heap, Values(r.w, r.ref))
    IN read(Match(heap, latents, e.root, FieldQuery(keys)))

\* the last call was Set(NewValue) through a query of fields and unions of
\* fields, some path of which is missing in D
SetThroughMissing ==
    /\ last.op = "Set"
    /\ last.msg # AlreadyMutated
    /\ IsFieldQuery(sets[last.i].query)
    /\ \E keys \in FieldPaths(sets[last.i].query) : TreeAt(doc0, KeySteps(keys)) = Missing

\* C5: Set materializes missing paths.  After Set(v) through a query of
\* fields and unions of fields, every path that takes one member of each
\* union reads back exactly [v] in the returned document, and every location
\* of D that is not on such a path keeps its value.
C5_SetMaterializesPaths ==
    SetThroughMissing =>
        /\ last.out = "ok"
        /\ \A keys \in FieldPaths(sets[last.i].query) :
                ReadBack(sets[last.i], keys) = <<TS(NewValue)>>
        /\ \A p \in TreePaths(doc0) :
                (\A keys \in FieldPaths(sets[last.i].query) :
                    ~IsPrefix(p, KeySteps(keys)) /\ ~IsPrefix(KeySteps(keys), p))
                => TreeAt(last.ret, p) = TreeAt(doc0, p)

\* a selection that is not made up of Array references only
NotOnlyArrays(ref) ==
    \/ ref.kind \in {"map", "var", "literal", "latent"}
    \/ ref.kind = "union" /\ \E k \in DOMAIN ref.refs : ref.refs[k].kind # "array"

\* C6: MutateRegions on a selection that is not made up of Array references
\* only returns the error that names the offending reference; the document
\* the MatchSet holds is unchanged and the MatchSet is not marked as mutated.
C6_MutateRegionsRejectsNonArrays ==
    last.op = "MutateRegions" /\ last.msg # AlreadyMutated
    /\ NotOnlyArrays(sets[last.i].ref) =>
        /\ last.out = "error"
        /\ last.msg = NotArrayMembers
        /\ ~sets[last.i].mutated
        /\ Held(heap, sets[last.i]) = doc0

\* C7: Delete on a selection that is a Var reference or a Literal reference
\* returns an error value (it neither succeeds nor panics), and the document
\* the MatchSet holds is unchanged.
C7_DeleteOfVarOrLiteralIsAnError ==
    last.op = "Delete" /\ last.msg # AlreadyMutated
    /\ sets[last.i].ref.kind \in {"var", "literal"} =>
        /\ last.out = "error"
        /\ ~sets[last.i].mutated
        /\ Held(heap, sets[last.i]) = doc0

\* the indices a selection selects, in order
SelectedIndicies(ref) == IF ref.kind = "array" THEN ToIndicies(ref.selection) ELSE <<>>

\* C8: index selection.  In an array of length n the index i selects the
\* zero-length region [0,0) when n = 0 and i is 0 or -1; otherwise n is added
\* to a negative i, and the result selects nothing when it is outside [0,n)
\* and exactly the region [i,i+1), that is the item at i, when it is inside.
C8_IndexSelection ==
    probe.done /\ probe.node.n = "index" =>
        LET n == probe.len
            i == probe.node.value
            j == IF i < 0 THEN i + n ELSE i
        IN /\ probe.out = "ok"
           /\ IF n = 0 /\ i \in {0, -1}
              THEN probe.ref = ArrayRef(RootVar, <<Region(0, 0)>>) /\ probe.vals = <<>>
              ELSE IF j >= 0 /\ j < n
              THEN probe.ref = ArrayRef(RootVar, <<Region(j, j + 1)>>) /\ probe.vals = <<TS(j)>>
              ELSE probe.ref = NewEmptyRef /\ probe.vals = <<>>

\* the index -1 has selected the last item of an array that has items
C8_Witness ==
    /\ probe.done
    /\ probe.node = IndexNode(-1)
    /\ probe.len > 1
    /\ probe.vals = <<TS(probe.len - 1)>>

\* C9: slice selection with step 1 or no step.  In an array of length n the
\* selected indices are exactly those from start' up to but not including
\* end': start' is the start (0 when absent), plus n if negative, raised to 0;
\* end' is the end (n when absent), plus n if negative, lowered to n.  The
\* selection is empty when start' >= end'.
C9_SliceSelection ==
    probe.done /\ probe.node.n = "slice"
    /\ probe.node.step \in {NotSpecified, Specified(1)} =>
        LET n == probe.len
            s0 == IF probe.node.start.specified THEN probe.node.start.value ELSE 0
            s1 == IF s0 < 0 THEN s0 + n ELSE s0
            start == IF s1 < 0 THEN 0 ELSE s1
            e0 == IF probe.node.end.specified THEN probe.node.end.value ELSE n
            e1 == IF e0 < 0 THEN e0 + n ELSE e0
            end == IF e1 > n THEN n ELSE e1
        IN /\ probe.out = "ok"
           /\ SeqToSet(SelectedIndicies(probe.ref)) = {i \in 0..(n - 1) : start <= i /\ i < end}
           /\ probe.vals = [k \in 1..(IF end > start THEN end - start ELSE 0) |-> TS(start + k - 1)]

\* a slice with a negative start and an end beyond the array has selected
\* the items from start + n to the last
C9_Witness ==
    /\ probe.done
    /\ probe.node = SliceNode(Specified(-2), Specified(MaxIndex), NotSpecified)
    /\ probe.len = 3
    /\ probe.vals = <<TS(1), TS(2)>>

\* what the evaluator makes of an expression on the probe's array
Evaluated(node) == Selected(Match(heap, latents, rootD, node))

\* C10: a slice with a negative step selects the same set of indices as the
\* slice with the same start and end and the positive step of equal magnitude.
C10_NegativeStepSameIndices ==
    probe.done /\ probe.node.n = "slice" /\ probe.node.step.specified
    /\ probe.node.step.value < 0 =>
        LET positive == Evaluated([probe.node EXCEPT !.step = Specified(-probe.node.step.value)])
        IN /\ probe.out = "ok"
           /\ SeqToSet(SelectedIndicies(probe.ref)) = SeqToSet(SelectedIndicies(positive.ref))

(***************************************************************************)
(* Properties of regions                                                   *)
(***************************************************************************)
\* the indices a region covers
Covered(r) == {i \in r.Start..(r.End - 1) : TRUE}

\* the indices the regions of a list cover
CoveredBy(rs) == UNION {Covered(rs[k]) : k \in DOMAIN rs}

\* the regions of a list that cover something, and those that cover nothing
Spans(rs) == {rs[k] : k \in {j \in DOMAIN rs : rs[j].End > rs[j].Start}}
Seams(rs) == {rs[k] : k \in {j \in DOMAIN rs : rs[j].End = rs[j].Start}}


\* C18: Region.Overlap(a, b) is true exactly when a and b share at least one
\* index; in particular it is false whenever a or b has length zero.
C18_OverlapIffSharedIndex ==
    probe.done /\ probe.op = "Overlap" =>
        probe.flag = (Covered(probe.a) \cap Covered(probe.b) # {})

\* C17: a.Cut(b) starts at a.Start less the number of indices of b below
\* a.Start, and its length is that of a less the number of indices a and b
\* share; a region b that ends at or before a.Start shifts a left by b.Len().
C17_CutShiftsAndShrinks ==
    probe.done /\ probe.op = "Cut" =>
        /\ probe.region.Start
               = probe.a.Start - Cardinality({i \in Covered(probe.b) : i < probe.a.Start})
        /\ RegionLen(probe.region)
               = RegionLen(probe.a) - Cardinality(Covered(probe.a) \cap Covered(probe.b))

\* C14: Union is commutative on checked sets: left.Union(right) and
\* right.Union(left) are the same list of regions.
C14_UnionCommutative ==
    probe.done /\ probe.op = "Union" => probe.regions = probe.reverse

\* how often a region is listed
Count(rs, r) == Cardinality({k \in DOMAIN rs : rs[k] = r})

\* whether an index lies strictly inside one of the regions
Inside(spans, p) == \E n \in spans : n.Start < p /\ p < n.End

\* the regions that overlapping regions join up to: each runs between two
\* indices that are inside no region, and every index between is inside one
Joined(spans) ==
    {r \in {Region(n.Start, m.End) : n \in spans, m \in spans} :
        /\ r.Start < r.End
        /\ Covered(r) \subseteq UNION {Covered(n) : n \in spans}
        /\ ~Inside(spans, r.Start)
        /\ ~Inside(spans, r.End)
        /\ \A p \in (r.Start + 1)..(r.End - 1) : Inside(spans, p)}

\* the zero-length regions that touch the start or end of a region and lie
\* inside none
TouchingSeams(rs) ==
    {z \in Seams(rs) : /\ \E n \in Spans(rs) : z.Start = n.Start \/ z.Start = n.End
                       /\ ~Inside(Spans(rs), z.Start)}

\* C15: the Union of two checked sets covers exactly the indices either set
\* covers; its non-zero-length regions are the inputs' with the overlapping
\* ones joined and the adjacent ones kept apart; it keeps every zero-length
\* region that touches the start or end of a non-zero-length region; and a
\* zero-length region that both sets list is listed once.
C15_UnionJoinsAndKeepsSeams ==
    probe.done /\ probe.op = "Union" =>
        /\ CoveredBy(probe.regions) = CoveredBy(probe.rs \o probe.other)
        /\ Spans(probe.regions) = Joined(Spans(probe.rs \o probe.other))
        /\ TouchingSeams(probe.rs \o probe.other) \subseteq Seams(probe.regions)
        /\ \A z \in Seams(probe.rs) \cap Seams(probe.other) :
              Count(probe.rs, z) = 1 /\ Count(probe.other, z) = 1 => Count(probe.regions, z) <= 1

\* C16: Clean of regions in any order, overlapping or nested in any way,
\* returns regions sorted by Start, no two of which share an index, each with
\* End >= Start, that cover exactly the indices the input covers.
C16_CleanSortedDisjointSameCover ==
    probe.done /\ probe.op = "Clean" =>
        /\ CheckSorted(probe.regions)
        /\ \A j \in DOMAIN probe.regions, k \in DOMAIN probe.regions :
              j # k => Covered(probe.regions[j]) \cap Covered(probe.regions[k]) = {}
        /\ \A k \in DOMAIN probe.regions : probe.regions[k].End >= probe.regions[k].Start
        /\ CoveredBy(probe.regions) = CoveredBy(probe.rs)

\* C19: extracting and merging back is a round trip.  For an array and a
\* checked set rs inside it, rs.MergeItems(source, rs.ExtractItems(source))
\* returns an array equal to the source, and the regions rs.
C19_ExtractMergeRoundTrip ==
    probe.done /\ probe.op = "RoundTrip" =>
        /\ probe.out = "ok"
        /\ probe.items = doc0.a
        /\ probe.regions = probe.rs

\* the items of a region and a seam between two kept items went out and
\* came back
C19_Witness ==
    /\ probe.done
    /\ probe.op = "RoundTrip"
    /\ probe.len = 3
    /\ probe.rs = <<Region(0, 1), Region(2, 2)>>
    /\ probe.items = <<TS(0), TS(1), TS(2)>>
    /\ probe.regions = probe.rs

RECURSIVE Splice(_, _, _, _)
\* the source from index `from` on, with the items of each region replaced by
\* the list that goes with it, and by nothing when the lists have run out
Splice(source, rs, lists, from) ==
    IF rs = <<>> THEN SubSeq(source, from + 1, Len(source))
    ELSE SubSeq(source, from + 1, Head(rs).Start)
         \o (IF lists = <<>> THEN <<>> ELSE Head(lists))
         \o Splice(source, Tail(rs), IF lists = <<>> THEN <<>> ELSE Tail(lists), Head(rs).End)

\* the lists the mutator of the probe returned, as documents
ReplacementLists == [k \in DOMAIN probe.lists |-> DerefSeq(heap, probe.lists[k])]

\* C12: ArrayRef.MutateRegions splices.  For a checked set of regions inside
\* the array, the array written back is the old one with the items of the
\* k-th region replaced by the k-th list the mutator returned (by nothing
\* when it returned fewer lists) and every other item kept in order; the
\* ref is left with one region per region it had, the k-th as long as the
\* k-th list, and Values on it returns the lists one after the other.
C12_MutateRegionsSplices ==
    probe.done /\ probe.op = "MutateRegions" =>
        /\ probe.out = "ok"
        /\ probe.items = Splice(doc0.a, probe.rs, ReplacementLists, 0)
        /\ Len(probe.regions) = Len(probe.rs)
        /\ \A k \in DOMAIN probe.regions :
              RegionLen(probe.regions[k])
                  = (IF k \in DOMAIN probe.lists THEN Len(probe.lists[k]) ELSE 0)
        /\ probe.vals = Flatten(ReplacementLists)

\* one item was replaced by two and a list was inserted at a seam: the array
\* grew and the ref selects the inserted items at their new positions
C12_Witness ==
    /\ probe.done
    /\ probe.op = "MutateRegions"
    /\ probe.len = 3
    /\ probe.rs = <<Region(0, 1), Region(2, 2)>>
    /\ probe.items = <<TS(NewValue), TS(NewValue + 1), TS(1), TS(NewValue), TS(2)>>
    /\ probe.regions = <<Region(0, 2), Region(3, 4)>>
    /\ probe.vals = <<TS(NewValue), TS(NewValue + 1), TS(NewValue)>>

\* the items of a list at the indices (from 0) that are not in a set, in order
Unselected(source, indices) == SelectSeq(source, LAMBDA item : item.v \notin indices)

\* C13: ArrayRef.Delete removes exactly the selected indices.  The array
\* written back holds the items at the other indices in their order, its
\* length is the old length less the number of selected indices, and the
\* ref is left with an empty selection; a zero-length region removes nothing.
\* (The item at index i of the probe's array is i.)
C13_DeleteRemovesSelected ==
    probe.done /\ probe.op = "Delete" =>
        /\ probe.out = "ok"
        /\ probe.items = Unselected(doc0.a, CoveredBy(probe.rs))
        /\ Len(probe.items) = probe.len - Cardinality(CoveredBy(probe.rs))
        /\ probe.regions = <<>>
        /\ probe.vals = <<>>

\* the first item went, the seam before the last item removed nothing
C13_Witness ==
    /\ probe.done
    /\ probe.op = "Delete"
    /\ probe.len = 3
    /\ probe.rs = <<Region(0, 1), Region(2, 2)>>
    /\ probe.items = <<TS(1), TS(2)>>
    /\ probe.regions = <<>>

(***************************************************************************)
(* Properties of filters                                                   *)
(***************************************************************************)
\* the ref that isolates the element at a position of the probe's document
ElementRef(i) ==
    IF probe.container = "arr" THEN ArrayRef(RootVar, <<Region(i - 1, i)>>)
    ELSE MapRef(RootVar, <<ElementKeys[i]>>)

\* how many values an operand selects for the element at a position
Selects(operand, i) ==
    LET values(r) == IF NoInput(r.ref) THEN 0 ELSE Len(Values(r.w, r.ref))
    IN values(process(World(heap, rootD, <<>>), ElementRef(i), operand))

\* C11: filter matching with missing operands.  The match returns, and
\* under every comparison operator, != included, an element for which lhs or
\* rhs selects no value is not matched, and neither is one for which lhs or
\* rhs selects more than one value; under exists an element is matched
\* exactly when lhs selects at least one value.
C11_FilterMissingOperands ==
    probe.done =>
        /\ probe.out = "ok"
        /\ \A i \in DOMAIN probe.elements :
              IF probe.node.operator = "Exists"
              THEN (i \in probe.matched) = (Selects(probe.node.lhs, i) >= 1)
              ELSE Selects(probe.node.lhs, i) # 1 \/ Selects(probe.node.rhs, i) # 1
                       => i \notin probe.matched

(***************************************************************************)
(* Properties of parsing                                                   *)
(***************************************************************************)
\* a segment that is an integer: an optional '-' and then digits only
IsIntegerSegment(seg) ==
    LET digits == IF seg # <<>> /\ Head(seg) = "-" THEN Tail(seg) ELSE seg
    IN digits # <<>> /\ \A k \in DOMAIN digits : isDigit(digits[k])

RECURSIVE SegmentEnd(_, _)
\* the offset where the segment that starts at an offset ends
SegmentEnd(src, off) ==
    IF CharAt(src, off) \in {eof, ".", "[", "]"} THEN off ELSE SegmentEnd(src, off + 1)

\* the segment that follows the character at index i
SegmentAfter(src, i) == SubSeq(src, i + 1, SegmentEnd(src, i))

\* the text before index i is a path on its own and ends on a name or a ']',
\* so that what stands at i continues that path
ContinuesPath(src, i) ==
    /\ i > 1
    /\ isLetter(src[i - 1]) \/ src[i - 1] = "]"
    /\ Parse(SubSeq(src, 1, i - 1)).err = NoError

\* the '.' at index i separates two segments of a path
SeparatorAt(src, i) ==
    /\ src[i] = "."
    /\ CharAt(src, i) # "."
    /\ ContinuesPath(src, i)

\* the text names a form of the number
Names(text, form) == \E k \in DOMAIN text : text[k] = form

\* C20: parsing a '.' followed by an integer segment.  Parsing a path in
\* which a '.' is followed by an integer segment (a.0, a.0.b, a.-1) fails
\* with a ParseError and never yields an expression; when the segment scans
\* as an integer token the message tells to wrap the number in brackets and
\* names both forms, [n] and ["n"]; the same integer in brackets parses
\* without error.
C20_DottedIntegerIsParseError ==
    probe.done =>
        /\ \A i \in DOMAIN probe.src :
               SeparatorAt(probe.src, i) /\ IsIntegerSegment(SegmentAfter(probe.src, i)) =>
                   /\ probe.out = "error"
                   /\ Scan(probe.src, i).tok = "Integer" =>
                          /\ probe.err = NakedInteger(SegmentAfter(probe.src, i))
                          /\ Names(ErrorText(probe.err),
                                   <<"[">> \o SegmentAfter(probe.src, i) \o <<"]">>)
                          /\ Names(ErrorText(probe.err),
                                   <<"[", "\"">> \o SegmentAfter(probe.src, i) \o <<"\"", "]">>)
        /\ \A i \in DOMAIN probe.src :
               /\ probe.src[i] = "["
               /\ ContinuesPath(probe.src, i)
               /\ IsIntegerSegment(SegmentAfter(probe.src, i))
               /\ SegmentEnd(probe.src, i) = Len(probe.src) - 1
               /\ probe.src[Len(probe.src)] = "]"
               => probe.out = "ok"

(***************************************************************************)
(* Properties of InsertAt, Simplify, Union and Intersect                   *)
(***************************************************************************)
\* no region is empty and no two regions of the list overlap
NoneEmptyNoneOverlapping(rs) ==
    /\ \A i \in DOMAIN rs : ~RegionEmpty(rs[i])
    /\ \A i, j \in DOMAIN rs : i # j => Covered(rs[i]) \cap Covered(rs[j]) = {}

\* C26: sorted outputs.  For region sets sorted by Start (and not
\* overlapping, for Union and Intersect) the results of Simplify, Union and
\* Intersect are sorted by Start (CheckSorted holds); the result of Simplify
\* also has no empty region and no two overlapping regions (Check holds) and
\* covers the same indices as its input.
C26_SortedOutputs ==
    /\ probe.done /\ probe.op = "Simplify" /\ CheckSorted(probe.rs) =>
           /\ probe.out = "ok"
           /\ CheckSorted(probe.regions)
           /\ RegionsCheck(probe.regions)
           /\ NoneEmptyNoneOverlapping(probe.regions)
           /\ CoveredBy(probe.regions) = CoveredBy(probe.rs)
    /\ probe.done /\ probe.op = "Union" =>
           CheckSorted(probe.regions) /\ CheckSorted(probe.reverse)
    /\ probe.done /\ probe.op = "Intersect" => CheckSorted(probe.regions)

\* Simplify has joined two overlapping regions and dropped an empty one
C26_Witness ==
    /\ probe.done /\ probe.op = "Simplify" /\ probe.out = "ok"
    /\ \E i, j \in DOMAIN probe.rs : i < j /\ Covered(probe.rs[i]) \cap Covered(probe.rs[j]) # {}
    /\ \E i \in DOMAIN probe.rs : RegionEmpty(probe.rs[i])
    /\ Len(probe.regions) = 1

\* C27 as stated: InsertAt(r) returns as many regions, in the same order;
\* a region that starts after r.Start is shifted right by r.Len(), a region
\* that contains the index r.Start is grown by r.Len() with its Start
\* unchanged, a region that ends at or before r.Start is returned unchanged.
C27_InsertAtAsStated ==
    probe.done /\ probe.op = "InsertAt" =>
        /\ Len(probe.regions) = Len(probe.rs)
        /\ \A i \in DOMAIN probe.rs :
               /\ probe.rs[i].Start > probe.a.Start =>
                      probe.regions[i] = Shift(probe.rs[i], RegionLen(probe.a))
               /\ RegionContainsIndex(probe.rs[i], probe.a.Start) =>
                      probe.regions[i] = Region(probe.rs[i].Start,
                                                probe.rs[i].End + RegionLen(probe.a))
               /\ probe.rs[i].End <= probe.a.Start => probe.regions[i] = probe.rs[i]

\* C27: InsertAt(r) returns as many regions, in the same order; a region
\* that starts at or after r.Start is shifted right by r.Len(), a region that
\* starts before r.Start and contains that index is grown by r.Len() with its
\* Start unchanged, a region that starts before r.Start and ends at or before
\* it is returned unchanged.
C27_InsertAtShiftsFromStart ==
    probe.done /\ probe.op = "InsertAt" =>
        /\ Len(probe.regions) = Len(probe.rs)
        /\ \A i \in DOMAIN probe.rs :
               /\ probe.rs[i].Start >= probe.a.Start =>
                      probe.regions[i] = Shift(probe.rs[i], RegionLen(probe.a))
               /\ probe.rs[i].Start < probe.a.Start
                  /\ RegionContainsIndex(probe.rs[i], probe.a.Start) =>
                      probe.regions[i] = Region(probe.rs[i].Start,
                                                probe.rs[i].End + RegionLen(probe.a))
               /\ probe.rs[i].Start < probe.a.Start /\ probe.rs[i].End <= probe.a.Start =>
                      probe.regions[i] = probe.rs[i]

\* InsertAt of a region that is not empty has shifted a region that starts
\* at its Start and grown one that starts before it
C27_Witness ==
    /\ probe.done /\ probe.op = "InsertAt"
    /\ RegionLen(probe.a) > 0
    /\ \E i, j \in DOMAIN probe.rs :
           /\ probe.rs[i].Start = probe.a.Start /\ ~RegionEmpty(probe.rs[i])
           /\ probe.regions[i] = Shift(probe.rs[i], RegionLen(probe.a))
           /\ probe.rs[j].Start < probe.a.Start
           /\ RegionContainsIndex(probe.rs[j], probe.a.Start)
           /\ probe.regions[j].End = probe.rs[j].End + RegionLen(probe.a)

(***************************************************************************)
(* Properties of the selections the evaluator makes                        *)
(***************************************************************************)
\* C30: slice evaluation terminates.  For every array of length n and every
\* slice node (any start, end and step, negative steps with start greater
\* than end included) processSlice finishes after finitely many steps and
\* yields at most n indices.
C30_SliceTerminates ==
    probe.done /\ probe.node.n = "slice" =>
        /\ probe.out # "diverge"
        /\ probe.out = "ok" => Len(SelectedIndicies(probe.ref)) <= probe.len

FailedMutation ==
    /\ last.op \in MutatingOps
    /\ last.out = "error"
    /\ last.msg # AlreadyMutated

WellFormed(ref) ==
    /\ ref.kind \notin {"nil", "panic"}
    /\ ref.kind = "union" =>
          /\ Len(ref.refs) # 1
          /\ \A i \in DOMAIN ref.refs : ref.refs[i].kind \notin {"union", "nil", "panic"}

\* C21: for every receiver and every list of arguments, with empty unions,
\* unions among the arguments and the same ref twice, Union returns, and
\* returns a ref that is not nil and is either not a union or a union whose
\* members are not unions and are not exactly one.
C21_UnionWellFormed ==
    (probe.kind = "union" /\ probe.done) => WellFormed(probe.out)

\* the pairs the claim lets merge: two Array refs, two Map refs or two Var
\* refs on the same variable, and two Literal refs of one value
SameLocationKind(r, ref) ==
    \/ /\ r.kind \in {"array", "map", "var"}
       /\ ref.kind = r.kind
       /\ Identity(r.var) = Identity(ref.var)
    \/ /\ r.kind = "literal"
       /\ ref.kind = "literal"
       /\ r.value = ref.value

\* the locations a ref denotes
Locations(ref) ==
    UNION {IF m.kind \in {"nil", "panic"} THEN {} ELSE SeqToSet(Vars(m)) :
              m \in SeqToSet(individualRefs(ref))}

\* C23: Merge succeeds exactly for two Array refs, two Map refs or two Var
\* refs of the same variable and for two Literal refs of equal value, and
\* fails for every other pair, any pair with a LatentMapRef included; when it
\* succeeds the ref it returns is not nil and denotes exactly the locations
\* of both operands, the keys of a Map ref sorted.
C23_MergeExactlySameLocationKind ==
    (probe.kind = "merge" /\ probe.done) =>
        /\ probe.out # PanicRef
        /\ probe.ok <=> SameLocationKind(probe.r, probe.args[1])
        /\ probe.ok =>
              /\ probe.out # NilRef
              /\ Locations(probe.out) = Locations(probe.r) \cup Locations(probe.args[1])
              /\ probe.out.kind = "map" => probe.out.keys = SortStrings(probe.out.keys)

(***************************************************************************)
(* Properties of the evaluation of a node against its input                *)
(***************************************************************************)
\* the LatentMapRef objects a ref holds
LatentIds(ref) ==
    {individualRefs(ref)[i].id :
        i \in {k \in DOMAIN individualRefs(ref) : individualRefs(ref)[k].kind = "latent"}}

\* C24: evaluating a node against a ref leaves the ref and every ref it
\* holds as they were, the key path of a LatentMapRef included, so that the
\* branches of a union node are each evaluated against the same input.
C24_EvaluationKeepsInput ==
    [][(probe.phase = "eval" /\ probe.pos <= Len(probe.nodes)) =>
          \A id \in LatentIds(probe.ref) : latents'[id] = latents[id]]_vars

(***************************************************************************)
(* Properties of a mutation applied to the members of a union              *)
(***************************************************************************)
\* the container a member is about to write still is of the member's kind:
\* an array for an ArrayRef, a map for a MapRef and for the root MapRefs of
\* a LatentMapRef
HoldsItsContainer(w, member) ==
    CASE member.kind = "array" -> IsSlice(w, member.var)
      [] member.kind = "map" -> IsMap(w, member.var)
      [] member.kind = "latent" ->
            \A i \in DOMAIN individualRefs(w.lat[member.id].root) :
                individualRefs(w.lat[member.id].root)[i].kind = "map" =>
                    IsMap(w, individualRefs(w.lat[member.id].root)[i].var)
      [] OTHER -> TRUE

\* C25: when Set, Delete or Mutate comes to an Array or Map member of a
\* union, or to the root Map ref of a Latent member, the location the member
\* targets still holds an array, respectively a map, whatever the members
\* before it have written.
C25_ContainersStayValid ==
    (probe.phase = "apply" /\ probe.ref.kind = "union" /\ probe.pos <= Len(Members)) =>
        HoldsItsContainer(World(heap, rootD, latents), Members[probe.pos])

\* the members of a union are in the order of UnionRef.Less: by Depth
\* descending and, for two members with a path at one depth, by path ascending
DepthOrdered(refs) ==
    \A i, j \in DOMAIN refs :
        i < j =>
            /\ Depth(refs[i]) >= Depth(refs[j])
            /\ (Depth(refs[i]) = Depth(refs[j]) /\ IsPathed(refs[i]) /\ IsPathed(refs[j]))
                   => ~BytesLess(GetPath(refs[j]), GetPath(refs[i]))

\* how deep in the document a member lies: for a LatentMapRef the depth a
\* MapRef on the place its key path ends at would have
DocumentDepth(member) ==
    IF member.kind = "latent"
    THEN Depth(latents[member.id].root) + 2 * Len(latents[member.id].keyPath)
    ELSE Depth(member)

\* the members are called in the order of the union
VisitedInOrder == probe.visited = SubSeq(Members, 1, Len(probe.visited))

\* C22 as stated: the members of every union built by Union are ordered by
\* depth descending and at equal depth by path ascending, Set, Delete and
\* Mutate visit them in that order, and so no member is written before a
\* member of the same union that lies deeper in the document.
C22_NoMemberBeforeADeeperOne ==
    probe.ref.kind = "union" =>
        /\ DepthOrdered(probe.ref.refs)
        /\ VisitedInOrder
        /\ \A i, j \in DOMAIN probe.visited :
               i < j => DocumentDepth(probe.visited[i]) >= DocumentDepth(probe.visited[j])

\* C22 amended: the members are ordered by Depth, which is 100000 for a
\* LatentMapRef, so the LatentMapRefs are visited first wherever they write;
\* among the other members none is written before one that lies deeper.
C22_LatentsFirstThenDeeperFirst ==
    probe.ref.kind = "union" =>
        /\ DepthOrdered(probe.ref.refs)
        /\ VisitedInOrder
        /\ \A i, j \in DOMAIN probe.visited :
               i < j =>
                   /\ probe.visited[j].kind = "latent" => probe.visited[i].kind = "latent"
                   /\ (probe.visited[i].kind # "latent" /\ probe.visited[j].kind # "latent")
                          => DocumentDepth(probe.visited[i]) >= DocumentDepth(probe.visited[j])

\* a LatentMapRef has been written before a member that lies deeper than the
\* place it writes, and the operation has returned
C22_Witness ==
    /\ probe.phase = "done"
    /\ probe.out = "ok"
    /\ probe.ref.kind = "union"
    /\ probe.visited = probe.ref.refs
    /\ \E i, j \in DOMAIN probe.visited :
           /\ i < j
           /\ probe.visited[i].kind = "latent"
           /\ probe.visited[j].kind = "map"
           /\ DocumentDepth(probe.visited[j]) > DocumentDepth(probe.visited[i])

====
